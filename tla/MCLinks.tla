------------------------------ MODULE MCLinks ------------------------------
(***************************************************************************)
(* The TLC instance of what the board says over the network: the voices    *)
(* and the recognition of the cloud, the nodes that give it tools and the  *)
(* gateway it is a node of, the servers of tools, the readers of WebSocket *)
(* frames, the channels of Feishu, WeChat and MQTT, and the orders that    *)
(* are carried out in Lark without the LLM.  A behaviour follows the       *)
(* component that focus names; the others stay in their initial states.    *)
(***************************************************************************)
EXTENDS Naturals, Sequences, FiniteSets

VARIABLES focus,
          speaker, poolLock, pool, preconnect, poolVoice, ownVoice, switched, cache, sentences,
          client, entry, dirty, offered, rebuilt, call, pending, asked, inbound, peers,
          invokes, misled,
          wanted, worker, socket, linked, tlsReady, writer, forward, control, restart,
          nodeStarts, tasks, leaked, nodeTorn,
          backend, recording, number, chunks, buffer, fallback, connector, stream, heard,
          task, confirmed, posted,
          app, token, poll, open, line, written, flight, acked, events, ids, said, talk,
          before, handing, handed, refused, sending, arrived, drops, visits, apps,
          server, tools, listed, stale, shell, asking, rate, bridge, passed, commands,
          toolAsked,
          reader, phase, coming, wire, rest, as, frames, told, given, audio, sender,
          dead, torn,
          wxRunning, wxPoll, joining, wxToken, cursor, wxAsked, wxGiven, ring, wxHanded,
          wxWritten, valid, logins, wxStarts,
          mqttRunning, sync, sock, broken, lock, mqttShell, sets, topic, mqttIn, mqttOut,
          agent, mqttSender, packed,
          flag, begun, mode, chatting, leaving, inbox, pc, cur, want, reply, members, strange,
          docs, edits, listing, at, looked, bodies, hits, group, since, kept, cut,
          song, sent, texts

(* A speaker with the cache and one without, a sentence each or one twice. *)
S == INSTANCE SpeechCloud WITH
       Cached <- {"channel"}, Plain <- {"page"}, Texts <- {1, 2}, Voices <- {"zh", "en"},
       Default <- "zh", Slots <- 1, MaxSpoken <- 2, Faults <- {"dead", "refused"}

(* A watch that connects twice, two calls of one of its tools. *)
N == INSTANCE RemoteNodes WITH
       Fds <- {1, 2}, Nodes <- {"watch"}, Callers <- {"agent"}, MaxClients <- 2, MaxNodes <- 1,
       MaxPending <- 1, MaxInvokes <- 2, MaxPeers <- 2, Reuse <- FALSE, Unlocked <- FALSE

(* Two starts, tasks enough to be running at every step of the second. *)
G == INSTANCE NodeClient WITH
       starts <- nodeStarts, torn <- nodeTorn,
       Tls <- TRUE, MaxStarts <- 2, MaxTasks <- 3, Faults <- {"connect", "upgrade", "drop"}

(* Two recordings, whose recognition may overlap, with either service. *)
R == INSTANCE SpeechRecognizer WITH
       MaxRecordings <- 2, MaxChunks <- 3, Backends <- {"dashscope", "volcengine"},
       Faults <- {"connect", "refused"}

(* A text and an image; an answer of two pieces. *)
F == INSTANCE FeishuChannel WITH
       Messages <- <<[kind |-> "text", words |-> "a"], [kind |-> "image", words |-> "b"]>>,
       RingSize <- 3, MaxDrops <- 1, MaxVisits <- 1, MaxApps <- 1, Chunks <- 2,
       Faults <- {"refused", "ack", "token"}

(* Two servers beside two calls, one more than the rate allows. *)
T == INSTANCE RemoteTools WITH
       asked <- toolAsked,
       Servers <- {"maps", "taxi"}, MaxServers <- 2, Shells <- {1}, Calls <- {"a", "b"},
       MaxCommands <- 3, MaxAsked <- 2, RateMax <- 1, Overlap <- FALSE, Faults <- {"silent"}

(* Two frames of every kind and length for each of the nine readers, and    *)
(* one more for the pool, which keeps its connection over sentences.        *)
FrameReader == {"pool", "speech", "voice", "ear", "cloud", "meeting", "server", "node", "feishu"}
B == INSTANCE FrameReaders WITH
       Readers <- FrameReader, MaxFrames <- [r \in FrameReader |-> IF r = "pool" THEN 3 ELSE 2],
       Extra <- {}, Again <- FALSE,
       Large <- {"speech", "voice", "ear", "meeting", "server", "node", "feishu"},
       Stalled <- {"speech", "ear", "cloud", "server"} \X {"given", "end", "error"}
                    \cup {<<"server", "answered">>},
       Silent <- {"pool", "speech", "voice", "ear", "cloud", "meeting", "node"},
       Overfull <- FALSE, Crossing <- FALSE

(* A message of another kind among two; a token that expires and two logins. *)
W == INSTANCE WeixinChannel WITH
       asked <- wxAsked, token <- wxToken, poll <- wxPoll, written <- wxWritten,
       handed <- wxHanded, given <- wxGiven, starts <- wxStarts, running <- wxRunning,
       MaxMessages <- 3, Other <- {2}, RingSize <- 3, PerPoll <- 2, PerAnswer <- 2, Kept <- 3,
       MaxLogins <- 2, MaxStarts <- 2, Faults <- {"http"}

(* Queues that are full at once, an answer that the buffer does not hold. *)
M == INSTANCE MqttChannel WITH
       inbound <- mqttIn, outbound <- mqttOut, shell <- mqttShell, sender <- mqttSender,
       running <- mqttRunning,
       MaxMessages <- 3, QueueLen <- 1, MaxPacked <- 1, MaxSets <- 1,
       Faults <- {"drop", "connect", "long"}

(* Texts of one order and of two, spoken and written; a document that comes *)
(* or goes under a search of more than may be read; groups with more        *)
(* messages than a page has, also within a second, and than are kept.       *)
Say(words, name) == [words |-> words, quoted |-> "", rest |-> name, voice |-> TRUE]
Quote(words, name) == [Say(words, "") EXCEPT !.quoted = name]
Letter(words, name) == [Say(words, name) EXCEPT !.voice = FALSE]
Doc(name, docx, body) == [name |-> name, docx |-> docx, body |-> body]
At(time, words) == [at |-> time, words |-> words]
P == INSTANCE FastPath WITH
       Utterances <- {Quote({"create", "lark", "doc"}, "plan"), Say({"query", "doc"}, "plan"),
                      Say({"query", "doc"}, ""), Say({"search", "content"}, "budget"),
                      Say({"converse", "lark", "open"}, ""), Say({"exit", "lark"}, ""),
                      Say({"mention", "today"}, "ann"), Say({"mention"}, "bob"),
                      Say({"injection", "create", "doc"}, "")},
       Letters <- {Letter({"search", "doc"}, ""), Letter({"/translate"}, ""),
                   Letter({"/command"}, ""), Letter({"play"}, "song"), Letter({"today"}, "")},
       MaxTexts <- 2, InboxMax <- 1,
       Within <- {<<"plans", "plan">>, <<"budget of May", "budget">>, <<"bobby", "bob">>},
       Similar <- {<<"budgit", "budget">>},
       Library <- <<Doc("notes", TRUE, {"plan", "budgit"}), Doc("photo", FALSE, {}),
                    Doc("log", TRUE, {"Error", "budget"}), Doc("budget of May", TRUE, {})>>,
       Drafts <- {Doc("plans", TRUE, {"budget"})}, MaxEdits <- 1, ListMax <- 6, MaxRead <- 1,
       MaxHits <- 1, Groups <- <<"team", "club">>, MaxGroups <- 2,
       People <- [team |-> <<"ann">>, club |-> <<"bobby">>],
       Posts <- [team |-> <<At(1, {"verb"}), At(2, {"noise", "verb"}),
                            At(2, {"question", "mention"}), At(4, {"time"})>>,
                 club |-> <<At(0, {"issue", "decision"}), At(3, {"urgent", "work"}),
                            At(3, {"time"}), At(3, {"urgent"})>>],
       Now <- 5, PageSize <- 3, MaxKept <- 3,
       Faults <- {"groups", "members", "answer", "list", "read", "page", "disabled", "speech",
                  "memory"},
       talk <- chatting, asked <- looked, cursor <- since

speechVars == <<speaker, poolLock, pool, preconnect, poolVoice, ownVoice, switched, cache,
                sentences>>
nodeVars == <<client, entry, dirty, offered, rebuilt, call, pending, asked, inbound, peers,
              invokes, misled>>
gatewayVars == <<wanted, worker, socket, linked, tlsReady, writer, forward, control, restart,
                 nodeStarts, tasks, leaked, nodeTorn>>
earVars == <<backend, recording, number, chunks, buffer, fallback, connector, stream, heard,
             task, confirmed, posted>>
feishuVars == <<app, token, poll, open, line, written, flight, acked, events, ids, said, talk,
                before, handing, handed, refused, sending, arrived, drops, visits, apps>>
toolsVars == <<server, tools, listed, stale, shell, asking, rate, bridge, passed, commands,
               toolAsked>>
framesVars == <<reader, phase, coming, wire, rest, as, frames, told, given, audio,
                sender, dead, torn>>
weixinVars == <<wxRunning, wxPoll, joining, wxToken, cursor, wxAsked, wxGiven, ring, wxHanded,
                wxWritten, valid, logins, wxStarts>>
mqttVars == <<mqttRunning, sync, sock, broken, lock, mqttShell, sets, topic, mqttIn, mqttOut,
              agent, mqttSender, packed>>
larkVars == <<flag, begun, mode, chatting, leaving, inbox, pc, cur, want, reply, members,
              strange, docs, edits, listing, at, looked, bodies, hits, group, since, kept, cut,
              song, sent, texts>>
cloudVars == <<speechVars, earVars, framesVars>>
toolVars == <<nodeVars, gatewayVars, toolsVars>>
chatVars == <<feishuVars, weixinVars, mqttVars>>
vars == <<focus, cloudVars, toolVars, chatVars, larkVars>>

Init == /\ focus \in {"speech", "node", "gateway", "ear", "feishu",
                      "tools", "frames", "weixin", "mqtt", "lark"}
        /\ S!Init /\ N!Init /\ G!Init /\ R!Init /\ F!Init
        /\ T!Init /\ B!Init /\ W!Init /\ M!Init /\ P!Init
        (* What a component may start with only matters where it has the focus. *)
        /\ focus # "ear" => backend = "dashscope"
        /\ focus # "frames" => reader = "pool"
        /\ focus # "mqtt" => topic = 0

Speech(Step) == /\ focus = "speech" /\ Step
                /\ UNCHANGED <<focus, toolVars, chatVars, earVars, framesVars, larkVars>>
Node(Step) == /\ focus = "node" /\ Step
              /\ UNCHANGED <<focus, cloudVars, chatVars, gatewayVars, toolsVars, larkVars>>
Gateway(Step) == /\ focus = "gateway" /\ Step
                 /\ UNCHANGED <<focus, cloudVars, chatVars, nodeVars, toolsVars, larkVars>>
Ear(Step) == /\ focus = "ear" /\ Step
             /\ UNCHANGED <<focus, toolVars, chatVars, speechVars, framesVars, larkVars>>
Feishu(Step) == /\ focus = "feishu" /\ Step
                /\ UNCHANGED <<focus, cloudVars, toolVars, weixinVars, mqttVars, larkVars>>
Tools(Step) == /\ focus = "tools" /\ Step
               /\ UNCHANGED <<focus, cloudVars, chatVars, nodeVars, gatewayVars, larkVars>>
Frames(Step) == /\ focus = "frames" /\ Step
                /\ UNCHANGED <<focus, toolVars, chatVars, speechVars, earVars, larkVars>>
Weixin(Step) == /\ focus = "weixin" /\ Step
                /\ UNCHANGED <<focus, cloudVars, toolVars, feishuVars, mqttVars, larkVars>>
Mqtt(Step) == /\ focus = "mqtt" /\ Step
              /\ UNCHANGED <<focus, cloudVars, toolVars, feishuVars, weixinVars, larkVars>>
Lark(Step) == /\ focus = "lark" /\ Step
              /\ UNCHANGED <<focus, cloudVars, toolVars, chatVars>>

Next == \/ Speech(S!Next) \/ Node(N!Next) \/ Gateway(G!Next) \/ Ear(R!Next) \/ Feishu(F!Next)
        \/ Tools(T!Next) \/ Frames(B!Next) \/ Weixin(W!Next) \/ Mqtt(M!Next)
        \/ Lark(P!Next)

(* The threads of each component are scheduled; users, peers and faults    *)
(* need not come.  As one component steps in a behaviour, a fairness       *)
(* condition stands for one thread of each.                                *)
First == Node(N!ClientStep(1)) \/ Gateway(G!ControlStep) \/ Ear(R!TaskStep(1))
            \/ Feishu(F!PollStep) \/ Tools(T!ShellStep(1))
            \/ Frames(B!Bring) \/ Weixin(W!PollStep) \/ Mqtt(\E t \in M!Threads : M!SyncStep(t))
            \/ Lark(P!AgentStep)
Second == Node(N!ClientStep(2)) \/ Gateway(G!WorkerStep) \/ Ear(R!TaskStep(2))
            \/ Feishu(F!Expire) \/ Tools(T!CallStep("a"))
            \/ Frames(dead /\ B!TimeOut) \/ Weixin(W!Joined) \/ Mqtt(M!StartChannel)
            \/ Lark(P!MainStep)
Third == Node(N!CallerStep("agent")) \/ Gateway(G!Write) \/ Feishu(F!Put)
            \/ Tools(T!CallStep("b"))
            \/ Frames(sender = "within" /\ B!Write) \/ Mqtt(M!Think \/ M!Answer)
Fourth == Feishu(F!SendPiece) \/ Mqtt(M!Fetch)

(* A lock that others let go again and again is got, and what is tried     *)
(* again and again, a connection or a request, comes about.                *)
Again == Speech(S!SpeakerStep("channel")) \/ Feishu(F!Connected) \/ Frames(B!ReaderStep)
            \/ Weixin(W!Answered \/ W!SessionExpired) \/ Mqtt(M!Publish)
AgainToo == Speech(S!SpeakerStep("page")) \/ Feishu(F!Endpoint /\ poll' = "connect")

Spec == /\ Init /\ [][Next]_vars
        /\ WF_vars(First) /\ WF_vars(Second) /\ WF_vars(Third) /\ WF_vars(Fourth)
        /\ SF_vars(Again) /\ SF_vars(AgainToo)

(* Each component keeps to its types. *)
TypesOK == /\ S!TypeOK /\ N!TypeOK /\ G!TypeOK /\ R!TypeOK /\ F!TypeOK
           /\ T!TypeOK /\ B!TypeOK /\ W!TypeOK /\ M!TypeOK /\ P!TypeOK

(* A connection, a session, a bridge has one owner, who is alive, and none *)
(* is lost: the client of MQTT, the objects the gateway's worker reads     *)
(* with, the bridge to the servers, the voice of the pool, the login to    *)
(* WeChat, the nodes and tools on offer, the group whose members are       *)
(* mentioned, and the text that was taken from the cloud.                  *)
LinksOwned == /\ M!OneClient /\ G!LinkIsOwned
              /\ T!BridgeAlive /\ T!KnownOnce /\ S!VoiceOfPool /\ W!LoginKept /\ N!OfferedAreHere
              /\ P!MentionsReachMembers /\ P!HandedOverIsAnswered

(* What comes is whole, in order, once, and the answer to what was asked:  *)
(* the sentences that are spoken and recognised, the frames of the nine    *)
(* readers and of the gateway, the answers of nodes, the messages of       *)
(* Feishu and WeChat, the documents that a search finds and the summary of *)
(* the day.                                                                *)
AnswersAreOwn == /\ S!SpokenWhole /\ R!SpeechInOrder /\ R!TextIsOwn
                 /\ B!InStep /\ B!GivenInOrder /\ B!PongsApart /\ G!FramesWhole
                 /\ T!RateHeld /\ N!AnswerIsOwn
                 /\ F!HandedOnce /\ F!AckedIsHandled /\ F!ReplyWhole
                 /\ W!HandedOnce /\ W!NoneSkipped
                 /\ P!SearchIsWhole /\ P!TodayIsWhole

(* Nobody waits for ever: a sentence is spoken or given up, a call of a    *)
(* node or a tool returns, a gateway stops, a recognition and a frame end, *)
(* messages reach the agent and its answers the network, and an order is   *)
(* answered.                                                               *)
LinksEnd ==
    LET Waiting == \/ S!Waiting \/ N!Waiting \/ G!Waiting \/ R!Waiting \/ F!Waiting
                   \/ T!Waiting \/ B!Within \/ W!Waiting \/ M!Waiting
                   \/ P!Waiting
    IN Waiting ~> ~Waiting
=============================================================================
