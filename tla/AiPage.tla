------------------------------- MODULE AiPage -------------------------------
(***************************************************************************)
(* The conversation page: its life in the LVGL thread, the threads that    *)
(* listen to the agent's WebSocket, one for each visit, the thread that    *)
(* speaks, and the stop, which runs in a thread of its own as it joins.    *)
(*   - lvgldemo/ai_page.c, lvgldemo/lvgl_dispatch.c                        *)
(* Nobody joins the listeners: the generation of the page tells an old one *)
(* that it is.  Frames are read whole; layout, texts, lamps and what the   *)
(* page says of its connection are left out.                               *)
(***************************************************************************)
EXTENDS Naturals, Sequences, FiniteSets

CONSTANTS MaxVisits, MaxMsgs,
          MaxDrops,  \* connections that fail, and changes of the language
          Lines,     \* AI_DISPLAY_LINES
          QueueMax,  \* AI_TTS_Q_MAX
          DispatchMax, \* LVGL_DISPATCH_Q_SIZE
          Faults     \* "thread": no thread for speaking
                     \* "shaking": a handshake outlasts its visit
                     \* "reuse": a descriptor is given out again while an old listener knows it
                     \* "slow": a listener is overtaken by a whole stop as it hands a message on
                     \* "late": the next visit begins before a listener does
                     \* "quick": the page is entered while it slides away
                     \* "language": the language changes while the page is being stopped
                     \* "others": the voice assistant shows texts without a page

Visits == 1..MaxVisits
Fds == 1..(MaxVisits + MaxDrops)
Stoppers == {"deinit", "lvgl"}

VARIABLES shown,     \* whether the page's screen is loaded
          alive,     \* s_page_alive
          cleaning,  \* s_deinit_in_progress
          area,      \* ai_chat_area: the visit it was made for, 0 for NULL
          rows,      \* ai_msg_bubbles, with what they hang on
          running, gen, wsfd, connected, \* ai_ws_...
          th,        \* the listener of each visit
          open,      \* whose each descriptor is, 0 for nobody's
          wire,      \* what the agent sent on a connection, 0 for its end
          queue,     \* ai_tts_q_head
          player,    \* the speaking thread and its sentence
          prun, pstarted, pb, \* ai_tts_player_running, _started, ai_tts_pb
          stop,      \* where each ai_page_stop is
          dispatch,  \* the calls that wait for the LVGL thread
          sockets, drops, sent

page == <<shown, alive, cleaning, area, rows>>
link == <<running, gen, wsfd, connected>>
line == <<th, open, wire>>
speech == <<queue, player, prun, pstarted, pb>>
bounds == <<sockets, drops, sent>>
vars == <<page, link, line, speech, stop, dispatch, bounds>>

Msg == [n : 1..MaxMsgs, by : 0..MaxVisits, spoken : BOOLEAN]
NoMsg == [n |-> 1, by |-> 0, spoken |-> FALSE]

TypeOK ==
    /\ shown \in {"no", "yes", "leaving", "again"}
    /\ {alive, cleaning, running, connected, prun, pstarted, pb} \subseteq BOOLEAN
    /\ area \in 0..MaxVisits /\ gen \in 0..MaxVisits
    /\ Len(rows) <= Lines /\ \A i \in 1..Len(rows) : rows[i].msg \in Msg
    /\ wsfd \in 0..(MaxVisits + MaxDrops)
    /\ th \in [Visits -> [pc : {"none", "new", "top", "shaking", "reading", "showing", "speaking",
                                "ending", "closing", "done"},
                          gen : 0..MaxVisits, fd : 0..(MaxVisits + MaxDrops), msg : Msg]]
    /\ open \in [Fds -> 0..MaxVisits]
    /\ queue \in Seq(Msg) /\ Len(queue) <= QueueMax
    /\ player \in [pc : {"none", "waiting", "speaking", "done"}, msg : Msg]
    /\ stop \in [Stoppers -> {"idle", "closing", "joining", "flushing", "posting"}]
    /\ Len(dispatch) <= DispatchMax

Init ==
    /\ shown = "no" /\ alive = FALSE /\ cleaning = FALSE /\ area = 0 /\ rows = <<>>
    /\ running = FALSE /\ gen = 0 /\ wsfd = 0 /\ connected = FALSE
    /\ th = [v \in Visits |-> [pc |-> "none", gen |-> 0, fd |-> 0, msg |-> NoMsg]]
    /\ open = [d \in Fds |-> 0] /\ wire = [d \in Fds |-> <<>>]
    /\ queue = <<>> /\ player = [pc |-> "none", msg |-> NoMsg]
    /\ prun = FALSE /\ pstarted = FALSE /\ pb = FALSE
    /\ stop = [w \in Stoppers |-> "idle"] /\ dispatch = <<>>
    /\ sockets = 0 /\ drops = 0 /\ sent = 0

-----------------------------------------------------------------------------
(* lvgl_dispatch_async drops what does not fit.                            *)
Room == Len(dispatch) < DispatchMax
Posted(item) == IF Room THEN Append(dispatch, item) ELSE dispatch
Show(m) == [what |-> "message", msg |-> m]
Clean == [what |-> "clean"]

Current(v) == running /\ th[v].gen = gen

-----------------------------------------------------------------------------
(* The LVGL thread, unless it waits in ai_page_stop.                       *)
Awake == stop["lvgl"] = "idle"

(* ai_page_start, and the thread that speaks.                              *)
Started ==
    /\ running' = TRUE /\ gen' = gen + 1
    /\ th' = [th EXCEPT ![gen'].pc = "new"]
    /\ \/ prun /\ UNCHANGED <<player, prun, pstarted>>
       \/ /\ ~prun
          /\ prun' = TRUE /\ pstarted' = TRUE /\ player' = [player EXCEPT !.pc = "waiting"]
       \/ /\ ~prun /\ "thread" \in Faults
          /\ UNCHANGED <<player, prun, pstarted>>
    /\ UNCHANGED <<wsfd, connected, open, wire, queue, pb>>

Enter ==
    /\ Awake /\ shown = "no" /\ ~cleaning /\ area = 0 /\ gen < MaxVisits
    /\ "late" \in Faults \/ \A v \in Visits : th[v].pc # "new"
    /\ shown' = "yes" /\ alive' = TRUE /\ area' = gen + 1 /\ rows' = <<>>
    /\ UNCHANGED cleaning
    /\ Started
    /\ UNCHANGED <<stop, dispatch, bounds>>

(* A page that was not cleaned up is loaded as it is.                      *)
EnterAgain ==
    /\ "quick" \in Faults
    /\ Awake /\ shown = "leaving" /\ ~cleaning /\ area # 0
    /\ shown' = "again"
    /\ UNCHANGED <<alive, cleaning, area, rows, link, line, speech, stop,
                   dispatch, bounds>>

Leave ==
    /\ Awake /\ shown = "yes" /\ alive
    /\ shown' = "leaving"
    /\ UNCHANGED <<alive, cleaning, area, rows, link, line, speech, stop,
                   dispatch, bounds>>

Unloaded ==
    /\ Awake /\ shown \in {"leaving", "again"} /\ stop["deinit"] = "idle"
    /\ shown' = IF shown = "again" THEN "yes" ELSE "no"
    /\ alive' = FALSE /\ cleaning' = TRUE
    /\ stop' = [stop EXCEPT !["deinit"] = "closing"]
    /\ running' = FALSE
    /\ UNCHANGED <<area, rows, gen, wsfd, connected, line, speech, dispatch,
                   bounds>>

(* Eight rows; the oldest one is used again, wherever it hangs.            *)
Added(m) == IF Len(rows) = Lines
            THEN Append(Tail(rows), [msg |-> m, on |-> rows[1].on])
            ELSE Append(rows, [msg |-> m, on |-> area])

Drain ==
    /\ Awake /\ dispatch # <<>> /\ dispatch' = Tail(dispatch)
    /\ LET item == Head(dispatch)
       IN \/ /\ item.what = "message"
             /\ rows' = Added(item.msg) /\ UNCHANGED <<cleaning, area>>
          \/ /\ item.what = "clean"
             /\ area' = 0 /\ rows' = <<>> /\ cleaning' = FALSE
    /\ UNCHANGED <<shown, alive, link, line, speech, stop, bounds>>

(* Another language: ai_page_deinit, in this thread.                       *)
SwitchLanguage ==
    /\ Awake /\ shown = "no" /\ drops < MaxDrops
    /\ "language" \in Faults \/ ~cleaning
    /\ drops' = drops + 1
    /\ alive' = FALSE
    /\ stop' = [stop EXCEPT !["lvgl"] = "closing"] /\ running' = FALSE
    /\ UNCHANGED <<shown, cleaning, area, rows, gen, wsfd, connected, line,
                   speech, dispatch, sockets, sent>>

-----------------------------------------------------------------------------
(* ai_page_stop closes the socket, then ends the speaking: the thread is   *)
(* joined, its queue emptied and its playback closed.                      *)
CloseSocket(w) ==
    /\ stop[w] = "closing"
    /\ open' = [d \in Fds |-> IF d = wsfd THEN 0 ELSE open[d]]
    /\ wire' = [d \in Fds |-> IF d = wsfd THEN <<>> ELSE wire[d]]
    /\ wsfd' = 0 /\ connected' = FALSE
    /\ stop' = [stop EXCEPT ![w] = IF pstarted THEN "joining" ELSE "flushing"]
    /\ prun' = (prun /\ ~pstarted)
    /\ UNCHANGED <<page, running, gen, th, queue, player, pstarted, pb, dispatch, bounds>>

Join(w) ==
    /\ stop[w] = "joining" /\ player.pc = "done"
    /\ pstarted' = FALSE /\ stop' = [stop EXCEPT ![w] = "flushing"]
    /\ UNCHANGED <<page, link, line, queue, player, prun, pb, dispatch, bounds>>

HandsOn(v) == th[v].pc \in {"showing", "speaking"}

Flush(w) ==
    /\ stop[w] = "flushing"
    /\ "slow" \in Faults \/ \A v \in Visits : ~HandsOn(v)
    /\ queue' = <<>> /\ pb' = FALSE
    /\ stop' = [stop EXCEPT ![w] = "posting"]
    /\ UNCHANGED <<page, link, line, player, prun, pstarted, dispatch, bounds>>

(* The objects of LVGL are for its own thread to delete.                   *)
AskToClean ==
    /\ stop["deinit"] = "posting"
    /\ dispatch' = Posted(Clean) /\ stop' = [stop EXCEPT !["deinit"] = "idle"]
    /\ UNCHANGED <<page, link, line, speech, bounds>>

CleanUp ==
    /\ stop["lvgl"] = "posting"
    /\ area' = 0 /\ rows' = <<>> /\ stop' = [stop EXCEPT !["lvgl"] = "idle"]
    /\ UNCHANGED <<shown, alive, cleaning, link, line, speech, dispatch,
                   bounds>>

StopStep(w) == CloseSocket(w) \/ Join(w) \/ Flush(w)
LvglStep == Unloaded \/ Drain \/ StopStep("lvgl") \/ CleanUp
DeinitStep == StopStep("deinit") \/ AskToClean

-----------------------------------------------------------------------------
(* The listener of visit v.                                                *)
Goto(v, pc) == th' = [th EXCEPT ![v].pc = pc]

Begin(v) ==
    /\ th[v].pc = "new"
    /\ th' = [th EXCEPT ![v].pc = "top", ![v].gen = gen]
    /\ UNCHANGED <<page, link, open, wire, speech, stop, dispatch, bounds>>

(* That it connects is not told from being without a connection.           *)
(* A closed descriptor is the next to be given out.                        *)
Free(d) == IF "reuse" \in Faults
           THEN open[d] = 0 /\ \A e \in Fds : e < d => open[e] # 0
           ELSE d = sockets + 1

Connect(v) ==
    /\ th[v].pc = "top"
    /\ \/ /\ ~Current(v) /\ Goto(v, "done") /\ UNCHANGED <<open, wire, sockets, drops>>
       \/ /\ Current(v)
          /\ \E d \in Fds :
                 /\ Free(d)
                 /\ th' = [th EXCEPT ![v].pc = "shaking", ![v].fd = d]
                 /\ open' = [open EXCEPT ![d] = v] /\ wire' = [wire EXCEPT ![d] = <<>>]
          /\ sockets' = sockets + 1 /\ UNCHANGED drops
       \/ /\ Current(v) /\ drops < MaxDrops
          /\ drops' = drops + 1 /\ sockets' = sockets + 1
          /\ UNCHANGED <<th, open, wire>>
    /\ UNCHANGED <<page, link, speech, stop, dispatch, sent>>

(* The socket becomes the page's, whichever page it was made for.          *)
Shaken(v) ==
    /\ th[v].pc = "shaking"
    /\ "shaking" \in Faults \/ th[v].gen = gen
    /\ wsfd' = th[v].fd /\ connected' = TRUE
    /\ Goto(v, IF Current(v) THEN "reading" ELSE "ending")
    /\ UNCHANGED <<page, running, gen, open, wire, speech, stop, dispatch, bounds>>

Close(v) == /\ open' = [open EXCEPT ![th[v].fd] = 0]
            /\ wire' = [wire EXCEPT ![th[v].fd] = <<>>]
            /\ th' = [th EXCEPT ![v].pc = "top", ![v].fd = 0]

NotShaken(v) ==
    /\ th[v].pc = "shaking"
    /\ \/ ~Current(v) /\ UNCHANGED drops
       \/ Current(v) /\ drops < MaxDrops /\ drops' = drops + 1
    /\ Close(v)
    /\ UNCHANGED <<page, link, speech, stop, dispatch, sockets, sent>>

(* It reads whatever its descriptor is by now.                             *)
Read(v) ==
    /\ th[v].pc = "reading"
    /\ LET d == th[v].fd
       IN \/ /\ open[d] = 0 /\ Goto(v, "ending") /\ UNCHANGED wire
          \/ /\ open[d] # 0 /\ wire[d] # <<>> /\ Head(wire[d]).n = 0
             /\ Goto(v, "ending") /\ UNCHANGED wire
          \/ /\ open[d] # 0 /\ wire[d] # <<>> /\ Head(wire[d]).n # 0
             /\ wire' = [wire EXCEPT ![d] = Tail(@)]
             /\ th' = [th EXCEPT ![v].pc = "showing",
                                 ![v].msg = [n |-> Head(wire[d]).n, by |-> v,
                                             spoken |-> Head(wire[d]).spoken]]
    /\ UNCHANGED <<page, link, open, speech, stop, dispatch, bounds>>

ShowIt(v) ==
    /\ th[v].pc = "showing" /\ dispatch' = Posted(Show(th[v].msg)) /\ Goto(v, "speaking")
    /\ UNCHANGED <<page, link, open, wire, speech, stop, bounds>>

(* A sentence that does not fit is not spoken; it was shown.               *)
SpeakIt(v) ==
    /\ th[v].pc = "speaking"
    /\ queue' = IF th[v].msg.spoken /\ Len(queue) < QueueMax THEN Append(queue, th[v].msg)
                ELSE queue
    /\ th' = [th EXCEPT ![v].pc = IF Current(v) /\ connected THEN "reading" ELSE "ending",
                        ![v].msg = NoMsg]
    /\ UNCHANGED <<page, link, open, wire, player, prun, pstarted, pb, stop, dispatch, bounds>>

(* It leaves the globals alone if they name another socket, and closes its *)
(* own, which the stop may have closed before.                             *)
End(v) ==
    /\ th[v].pc = "ending"
    /\ \/ wsfd = th[v].fd /\ wsfd' = 0 /\ connected' = FALSE
       \/ wsfd # th[v].fd /\ UNCHANGED <<wsfd, connected>>
    /\ Goto(v, "closing")
    /\ UNCHANGED <<page, running, gen, open, wire, speech, stop, dispatch, bounds>>

CloseOwn(v) ==
    /\ th[v].pc = "closing"
    /\ Close(v)
    /\ UNCHANGED <<page, link, speech, stop, dispatch, bounds>>

ListenerStep(v) == \/ Begin(v) \/ Connect(v) \/ Shaken(v) \/ NotShaken(v) \/ Read(v) \/ ShowIt(v)
                   \/ SpeakIt(v) \/ End(v) \/ CloseOwn(v)

-----------------------------------------------------------------------------
(* The thread that speaks opens one playback for all sentences.            *)
TakeSentence ==
    /\ player.pc = "waiting"
    /\ \/ ~prun /\ player' = [player EXCEPT !.pc = "done"] /\ UNCHANGED <<queue, pb>>
       \/ /\ prun /\ queue # <<>>
          /\ queue' = Tail(queue) /\ pb' = TRUE
          /\ player' = [pc |-> "speaking", msg |-> Head(queue)]
       \/ /\ prun /\ queue # <<>> /\ ~pb /\ "thread" \in Faults
          /\ queue' = Tail(queue) /\ UNCHANGED <<pb, player>>
    /\ UNCHANGED <<page, link, line, prun, pstarted, stop, dispatch, bounds>>

Spoken ==
    /\ player.pc = "speaking"
    /\ player' = [pc |-> "waiting", msg |-> NoMsg]
    /\ UNCHANGED <<page, link, line, queue, prun, pstarted, pb, stop, dispatch, bounds>>

PlayerStep == TakeSentence \/ Spoken

-----------------------------------------------------------------------------
(* The agent sends to a connection, or ends it.                            *)
Listening == {"reading", "showing", "speaking"}
Served(d) == open[d] # 0 /\ th[open[d]].fd = d /\ th[open[d]].pc \in Listening

AgentSends ==
    /\ sent < MaxMsgs /\ sent' = sent + 1
    /\ \E d \in Fds, aloud \in BOOLEAN :
           /\ Served(d)
           /\ wire' = [wire EXCEPT ![d] = Append(@, [n |-> sent', spoken |-> aloud])]
    /\ UNCHANGED <<page, link, th, open, speech, stop, dispatch, sockets, drops>>

AgentEnds ==
    /\ drops < MaxDrops /\ drops' = drops + 1
    /\ \E d \in Fds :
           /\ Served(d) /\ \A i \in 1..Len(wire[d]) : wire[d][i].n # 0
           /\ wire' = [wire EXCEPT ![d] = Append(@, [n |-> 0, spoken |-> FALSE])]
    /\ UNCHANGED <<page, link, th, open, speech, stop, dispatch, sockets, sent>>

(* What the voice assistant shows: texts of the user and of the cloud.     *)
AssistantShows ==
    /\ alive \/ "others" \in Faults
    /\ sent < MaxMsgs /\ sent' = sent + 1
    /\ dispatch' = Posted(Show([n |-> sent', by |-> 0, spoken |-> FALSE]))
    /\ UNCHANGED <<page, link, line, speech, stop, sockets, drops>>

Next == \/ Enter \/ EnterAgain \/ Leave \/ SwitchLanguage \/ LvglStep \/ DeinitStep
        \/ (\E v \in Visits : ListenerStep(v)) \/ PlayerStep
        \/ AgentSends \/ AgentEnds \/ AssistantShows

Spec == /\ Init /\ [][Next]_vars
        /\ WF_vars(LvglStep) /\ WF_vars(DeinitStep) /\ WF_vars(PlayerStep)
        /\ \A v \in Visits : WF_vars(ListenerStep(v))

-----------------------------------------------------------------------------
(* The page that is shown is alive, and its listener has the connection    *)
(* that the page speaks on.                                                *)
ShownIsAlive == shown = "yes" => alive /\ ~cleaning /\ area = gen
Listens(v) == th[v].pc \in Listening /\ Current(v)
OwnConnection ==
    /\ \A v \in Visits : Listens(v) => wsfd = th[v].fd /\ connected /\ open[wsfd] = v
    /\ wsfd # 0 => open[wsfd] # 0

(* The speaking thread is joined once, and speaks what came in this visit. *)
JoinedOnce == ~\A w \in Stoppers : stop[w] = "joining"
SpokenInItsVisit == player.pc = "speaking" => player.msg.by = gen

(* Every row hangs on the page that is there.                              *)
RowsOnPage == \A i \in 1..Len(rows) : rows[i].on = area /\ area # 0

(* A page that was left can be entered again; one that is there gets its   *)
(* connection.                                                             *)
Waiting == cleaning \/ ~Awake \/ (alive /\ ~connected)
PageServes == Waiting ~> ~Waiting
=============================================================================
