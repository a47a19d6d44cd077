----------------------------- MODULE MCServices -----------------------------
(***************************************************************************)
(* The TLC instance of the long-running services: the way of a request     *)
(* through the agent, the scheduler, the session files, the client of      *)
(* HTTPS, the network below it, the music player and the page of the       *)
(* conversation.  As in MCTurnServices a behaviour follows the one that    *)
(* focus names.                                                            *)
(***************************************************************************)
EXTENDS Naturals, Sequences, FiniteSets, TLC

CONSTANTS Requests, Channel, Careless, MaxSends, InLen, OutLen, GraceIsEnough,
          NoRequest,                                    \* of AgentTask
          Ids, MaxJobs, Intervals, CronActions, MaxTime, CronBoots,   \* of CronService
          Chats, TruncateEvery, KeepLines, MaxLines, SessionBoots     \* of SessionStore

VARIABLES focus,
          accepted, rejected, inq, outq, pc, cur, answer, dpc, out, said, history, heap, stage,
          jobs, file, now, running, cpc, i, sampled, changed, cboots, used, gone, fired,
          files, tmp, lines, log, cleared, appends, spc, chat, sboots,
          llm, proxy, slot, spare, req, warmer, served, sockets,
          link, state, force, poll, watch, started, active, user, inits, flips, uses, forced,
          track, handle, session, posts, bad, player, events, cb, call, how, sleepers, told, plays,
          calls,
          shown, alive, cleaning, area, rows, ears, gen, wsfd, connected, th, open, wire,
          queue, speaker, prun, pstarted, pb, stop, dispatch, shakes, drops, sent

agentVars == <<accepted, rejected, inq, outq, pc, cur, answer, dpc, out, said, history,
               heap, stage>>
cronVars == <<jobs, file, now, running, cpc, i, sampled, changed, cboots, used, gone, fired>>
sessionVars == <<files, tmp, lines, log, cleared, appends, spc, chat, sboots>>
httpsVars == <<llm, proxy, slot, spare, req, warmer, served, sockets>>
networkVars == <<link, state, force, poll, watch, started, active, user, inits, flips, uses,
                 forced>>
mediaVars == <<track, handle, session, posts, bad, player, events, cb, call, how, sleepers, told,
               plays, calls>>
pageVars == <<shown, alive, cleaning, area, rows, ears, gen, wsfd, connected, th, open,
              wire, queue, speaker, prun, pstarted, pb, stop, dispatch, shakes, drops, sent>>
vars == <<focus, agentVars, cronVars, sessionVars, httpsVars, networkVars, mediaVars, pageVars>>

A == INSTANCE AgentTask
J == INSTANCE CronService WITH boots <- cboots, MaxBoots <- CronBoots
S == INSTANCE SessionStore WITH pc <- spc, boots <- sboots, MaxBoots <- SessionBoots

ASSUME AgentAssumption == NoRequest \notin Requests

ASSUME CronAssumption ==
  /\ MaxJobs \in Nat /\ MaxTime \in Nat \ {0}
  /\ Ids \subseteq Nat /\ Intervals \subseteq 1 .. MaxTime

ASSUME SessionAssumption ==
  TruncateEvery \in Nat \ {0} /\ KeepLines \in Nat /\ MaxLines \in Nat

(* Two requests and a preconnection for one place in the pool. *)
H == INSTANCE HttpsClient WITH
       Requests <- {"a", "b"}, Warmers <- {"p"}, Hosts <- {"qwen", "feishu"},
       Kinds <- {"chat", "talk"}, Slots <- {1}, Pieces <- 2, MaxRetries <- 1,
       Faults <- {"connect", "drop", "rest"}

(* Two threads connect, once each or one of them twice, for one place; two *)
(* polling threads.                                                        *)
N == INSTANCE NetworkManager WITH
       Users <- {"a", "b"}, MaxConns <- 1, MaxInits <- 2, MaxFlips <- 1, MaxUses <- 2,
       MaxForced <- 1, Rejoin <- FALSE

(* One thread calls the music tools: two tracks, two other calls.          *)
P == INSTANCE MediaPlayer WITH
       state <- track, Callers <- {"a"}, MaxPlays <- 2, MaxCalls <- 2,
       Faults <- {"refused", "error"}

(* The page is visited twice; its connection fails once, or the language   *)
(* changes.                                                                *)
K == INSTANCE AiPage WITH
       running <- ears, player <- speaker, sockets <- shakes,
       MaxVisits <- 2, MaxDrops <- 1, MaxMsgs <- 1, Lines <- 1, QueueMax <- 1,
       DispatchMax <- 20, Faults <- {}

Off == "off"
AgentOff == /\ accepted = <<>> /\ rejected = Off /\ inq = Off /\ outq = Off /\ pc = Off
            /\ cur = Off /\ answer = Off /\ dpc = Off /\ out = Off /\ said = Off
            /\ history = Off /\ heap = {} /\ stage = Off
CronOff == /\ jobs = <<>> /\ file = Off /\ now = Off /\ running = Off /\ cpc = Off /\ i = Off
           /\ sampled = Off /\ changed = Off /\ cboots = Off /\ used = Off /\ gone = Off
           /\ fired = Off
SessionOff == /\ files = Off /\ tmp = Off /\ lines = Off /\ log = Off /\ cleared = Off
              /\ appends = Off /\ spc = Off /\ chat = Off /\ sboots = Off
HttpsOff == H!Init /\ llm = "qwen" /\ ~proxy
NetworkOff == N!Init /\ ~link
MediaOff == P!Init
PageOff == K!Init

Init == \/ /\ focus = "agent" /\ A!Init
           /\ CronOff /\ SessionOff /\ HttpsOff /\ NetworkOff /\ MediaOff /\ PageOff
        \/ /\ focus = "cron" /\ J!Init
           /\ AgentOff /\ SessionOff /\ HttpsOff /\ NetworkOff /\ MediaOff /\ PageOff
        \/ /\ focus = "session" /\ S!Init
           /\ AgentOff /\ CronOff /\ HttpsOff /\ NetworkOff /\ MediaOff /\ PageOff
        \/ /\ focus = "https" /\ H!Init
           /\ AgentOff /\ CronOff /\ SessionOff /\ NetworkOff /\ MediaOff /\ PageOff
        \/ /\ focus = "network" /\ N!Init
           /\ AgentOff /\ CronOff /\ SessionOff /\ HttpsOff /\ MediaOff /\ PageOff
        \/ /\ focus = "media" /\ P!Init
           /\ AgentOff /\ CronOff /\ SessionOff /\ HttpsOff /\ NetworkOff /\ PageOff
        \/ /\ focus = "page" /\ K!Init
           /\ AgentOff /\ CronOff /\ SessionOff /\ HttpsOff /\ NetworkOff /\ MediaOff

Agent(Step) == /\ focus = "agent" /\ Step
               /\ UNCHANGED <<focus, cronVars, sessionVars, httpsVars, networkVars, mediaVars,
                              pageVars>>
Cron(Step) == /\ focus = "cron" /\ Step
              /\ UNCHANGED <<focus, agentVars, sessionVars, httpsVars, networkVars, mediaVars,
                             pageVars>>
Session(Step) == /\ focus = "session" /\ Step
                 /\ UNCHANGED <<focus, agentVars, cronVars, httpsVars, networkVars, mediaVars,
                                pageVars>>
Https(Step) == /\ focus = "https" /\ Step
               /\ UNCHANGED <<focus, agentVars, cronVars, sessionVars, networkVars, mediaVars,
                              pageVars>>
Network(Step) == /\ focus = "network" /\ Step
                 /\ UNCHANGED <<focus, agentVars, cronVars, sessionVars, httpsVars, mediaVars,
                                pageVars>>
Media(Step) == /\ focus = "media" /\ Step
               /\ UNCHANGED <<focus, agentVars, cronVars, sessionVars, httpsVars, networkVars,
                              pageVars>>
Page(Step) == /\ focus = "page" /\ Step
              /\ UNCHANGED <<focus, agentVars, cronVars, sessionVars, httpsVars, networkVars,
                             mediaVars>>

Next == \/ Agent(A!Next) \/ Cron(J!Next) \/ Session(S!Next)
        \/ Https(H!Next) \/ Network(N!Next) \/ Media(P!Next) \/ Page(K!Next)

(* Each thread runs when it can: the LLM call, a push, a connection and the *)
(* waits of the cron and polling threads all end by a time-out.  Nothing is *)
(* assumed of senders, tools, the shell, the link, the music and the power. *)
(* As one component steps in a behaviour, a fairness condition stands for   *)
(* one thread of each.                                                      *)
First == Agent(A!AgentStep) \/ Cron(J!CronStep)
            \/ Https(H!RequestStep("a")) \/ Network(N!PollStep(1))
            \/ Media(P!CallStep("a")) \/ Page(K!ListenerStep(1))
Second == Agent(A!DispatcherStep) \/ Https(H!RequestStep("b")) \/ Network(N!PollStep(2))
             \/ Media(P!CbStep) \/ Page(K!ListenerStep(2))
Third == Agent(A!MainStep) \/ Https(H!WarmerStep("p")) \/ Network(N!UserStep("a"))
            \/ Page(K!LvglStep)
Fourth == Network(N!UserStep("b")) \/ Page(K!DeinitStep)
Fifth == Network(N!WatchStep) \/ Page(K!PlayerStep)
Spec == /\ Init /\ [][Next]_vars
        /\ WF_vars(First) /\ WF_vars(Second) /\ WF_vars(Third)
        /\ WF_vars(Fourth) /\ WF_vars(Fifth)

(* Each component keeps to its types. *)
TypesOK == /\ focus = "agent" => A!TypeOK
           /\ focus = "cron" => J!TypeOK
           /\ focus = "session" => S!TypeOK
           /\ focus = "https" => H!TypeOK
           /\ focus = "network" => N!TypeOK
           /\ focus = "media" => P!TypeOK
           /\ focus = "page" => K!TypeOK

(* A text has one owner, a connection one user, and none is lost; a place  *)
(* for a connection that is counted is held, and who waits for one is      *)
(* woken for it; a player of music is closed, or is the one that the state *)
(* speaks of; the page that is shown is alive and its listener has the      *)
(* connection that the page speaks on.                                     *)
OwnedOnce == /\ focus = "agent" => A!TextsOwnedOnce
             /\ focus = "https" => H!OneUser /\ H!NoSocketLost
             /\ focus = "network" => N!PlacesHeld /\ N!PlaceReaches
             /\ focus = "media" => P!PlayerKept /\ P!StateIsTrue
             /\ focus = "page" => K!ShownIsAlive /\ K!OwnConnection /\ K!JoinedOnce

(* A reminder fires once; a request is done once, by the server it was     *)
(* written for, and its answer is handed on once; the end of a track is    *)
(* told once; a message is shown on the page that is there, and spoken in  *)
(* the visit it came in.                                                   *)
DoneOnce == /\ focus = "cron" => J!FiresOnce /\ J!GoneStaysGone
            /\ focus = "https" => H!SentToItsHost /\ H!DoneOnce /\ H!StreamedOnce
            /\ focus = "media" => P!ToldOnce
            /\ focus = "page" => K!SpokenInItsVisit /\ K!RowsOnPage

(* The properties of the agent and the sessions, stated in their modules. *)
AnswersInOrder == focus = "agent" => A!AnswersInOrder
SaidIsRemembered == focus = "agent" => A!SaidIsRemembered
HistoryIsRecent == focus = "session" => S!HistoryIsRecent

(* A request and its text end, a due job fires, a request to a server ends, *)
(* the services follow the network, calls of the music tools return, and a  *)
(* page gets its connection and can be entered again.                       *)
ServicesEnd ==
    LET Waiting == \/ focus = "agent" /\ A!Unfinished
                   \/ focus = "cron" /\ J!Overdue
                   \/ focus = "https" /\ H!Asking
                   \/ focus = "network" /\ N!Waiting
                   \/ focus = "media" /\ P!Waiting
                   \/ focus = "page" /\ K!Waiting
    IN Waiting ~> ~Waiting
-----------------------------------------------------------------------------
(* The values of the TLC run.  Three requests, of a text channel or spoken, *)
(* of which two are sent; the inbound queue holds one message, the outbound *)
(* queue two.  Two jobs, so that one is deleted under the other; one power  *)
(* failure.  Every second append truncates, to two lines.                   *)
CONSTANTS r1, r2, r3
TextOrVoice == r1 :> "websocket" @@ r2 :> "websocket" @@ r3 :> "voice"
=============================================================================
