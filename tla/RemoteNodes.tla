----------------------------- MODULE RemoteNodes -----------------------------
(***************************************************************************)
(* The gateway: clients of the WebSocket server, some of which are nodes   *)
(* that lend their tools to this agent.                                    *)
(*   - channels/ws_server.c, node/node_manager.c, tools/tool_registry.c    *)
(* Every client has a thread; a tool call on a node waits for the answer   *)
(* that the node's thread receives.  The scan for a free pending entry and *)
(* its taking are one step, as are finding one and writing the result: the *)
(* code has no lock around either.                                         *)
(***************************************************************************)
EXTENDS Naturals, FiniteSets

CONSTANTS Fds,          \* descriptors of accepted clients
          Nodes,        \* ids of nodes
          Callers,      \* threads that call tools
          MaxClients,   \* AGENT_WS_MAX_CLIENTS
          MaxNodes,     \* NODE_MAX_NODES
          MaxPending,   \* MAX_PENDING
          MaxInvokes,   \* invocations, in all
          MaxPeers,     \* clients that are accepted, in all
          Reuse,        \* whether a closed descriptor is given to the next client
          Unlocked      \* whether another thread steps within tool_registry_rebuild_json

VARIABLES client,   \* the threads: where they are, and the number of their peer
          entry,    \* s_nodes: the descriptor of each node that is active, 0 otherwise
          dirty,    \* s_tools_dirty
          offered,  \* s_tools_json: the nodes whose tools are in it
          rebuilt,  \* what an unlocked rebuild has collected
          call,     \* the callers
          pending,  \* s_pending: the active entries
          asked,    \* requests that a peer has received and not answered
          inbound,  \* chats that are to be answered, and their peers
          peers,    \* clients accepted
          invokes,  \* invocations
          misled    \* a request or an answer went to another peer than was meant

NoResult == <<0, "none">>
Failed == <<0, "failed">>
Results == {NoResult, Failed} \cup ((1..MaxInvokes) \X Nodes)

vars == <<client, entry, dirty, offered, rebuilt, call, pending, asked, inbound, peers, invokes,
          misled>>

Threads == {"closed", "handshake", "fresh", "reading", "hello", "rebuild",
            "collected", "stale", "waking", "closing"}

TypeOK ==
    /\ client \in [Fds -> [pc : Threads, peer : 0..MaxPeers]]
    /\ entry \in [Nodes -> Fds \cup {0}]
    /\ dirty \in BOOLEAN /\ offered \subseteq Nodes /\ rebuilt \subseteq Nodes
    /\ call \in [Callers -> [pc : {"idle", "found", "waiting"}, node : Nodes,
                             fd : Fds \cup {0}, id : 0..MaxInvokes,
                             peer : 0..MaxPeers, result : Results]]
    /\ pending \subseteq [id : 1..MaxInvokes, done : BOOLEAN, result : Results]
    /\ Cardinality(pending) <= MaxPending
    /\ asked \subseteq (1..MaxPeers) \X (1..MaxInvokes) \X Nodes
    /\ inbound \subseteq Fds \X (1..MaxPeers)
    /\ peers \in 0..MaxPeers /\ invokes \in 0..MaxInvokes /\ misled \in BOOLEAN

Init ==
    /\ client = [f \in Fds |-> [pc |-> "closed", peer |-> 0]]
    /\ entry = [n \in Nodes |-> 0]
    /\ dirty = FALSE /\ offered = {} /\ rebuilt = {}
    /\ call = [c \in Callers |-> [pc |-> "idle", node |-> CHOOSE n \in Nodes : TRUE, fd |-> 0,
                                  id |-> 0, peer |-> 0, result |-> NoResult]]
    /\ pending = {} /\ asked = {} /\ inbound = {}
    /\ peers = 0 /\ invokes = 0 /\ misled = FALSE

Connected == {n \in Nodes : entry[n] # 0}
Registered == {f \in Fds : client[f].pc \notin {"closed", "handshake"}}
registryVars == <<dirty, offered, rebuilt>>
callVars == <<call, pending, asked, invokes>>
Goto(f, pc) == client' = [client EXCEPT ![f].pc = pc]

-----------------------------------------------------------------------------
(* accept_thread and client_thread: a client is accepted, under the lowest *)
(* free descriptor, greets, takes a place among the clients or is refused. *)
Free(f) == client[f].pc = "closed" /\ (Reuse \/ client[f].peer = 0)
Accept(f) ==
    /\ Free(f) /\ \A g \in Fds : Free(g) => f <= g
    /\ peers < MaxPeers
    /\ peers' = peers + 1
    /\ client' = [client EXCEPT ![f] = [pc |-> "handshake", peer |-> peers + 1]]
    /\ UNCHANGED <<entry, registryVars, callVars, inbound, misled>>

Register(f) ==
    /\ client[f].pc = "handshake"
    /\ \/ Cardinality(Registered) < MaxClients /\ Goto(f, "fresh")
       \/ Goto(f, "closed")
    /\ UNCHANGED <<entry, registryVars, callVars, inbound, peers, misled>>

(* handle_connect, which a node sends once, after the challenge: it takes  *)
(* a free entry, or its own from a connection before; the list of tools is *)
(* stale, and rebuilt, without the registry's lock.                        *)
ConnectNode(f, n) ==
    /\ client[f].pc = "fresh"
    /\ entry[n] # 0 \/ Cardinality(Connected) < MaxNodes
    /\ entry' = [entry EXCEPT ![n] = f]
    /\ Goto(f, "hello")
    /\ UNCHANGED <<registryVars, callVars, inbound, peers, misled>>

Invalidate(f) ==
    /\ client[f].pc \in {"hello", "stale"}
    /\ dirty' = TRUE
    /\ Goto(f, IF client[f].pc = "hello" THEN "rebuild" ELSE "waking")
    /\ UNCHANGED <<entry, offered, rebuilt, callVars, inbound, peers, misled>>

Rebuild(f) ==
    /\ client[f].pc = "rebuild"
    /\ IF ~dirty THEN Goto(f, "reading") /\ UNCHANGED registryVars
       ELSE IF Unlocked THEN Goto(f, "collected") /\ rebuilt' = Connected /\ UNCHANGED <<dirty, offered>>
       ELSE Goto(f, "reading") /\ offered' = Connected /\ dirty' = FALSE /\ UNCHANGED rebuilt
    /\ UNCHANGED <<entry, callVars, inbound, peers, misled>>

Rebuilt(f) ==
    /\ client[f].pc = "collected"
    /\ offered' = rebuilt /\ dirty' = FALSE
    /\ Goto(f, "reading")
    /\ UNCHANGED <<entry, rebuilt, callVars, inbound, peers, misled>>

(* tool_registry_get_tools_json, by the agent, under the lock.             *)
GetTools ==
    /\ dirty
    /\ offered' = Connected /\ dirty' = FALSE
    /\ UNCHANGED <<client, entry, rebuilt, callVars, inbound, peers, misled>>

(* A message of a chat client, and its answer: it goes to the client that  *)
(* has the chat, which is named after the descriptor, by then.             *)
Message(f) ==
    /\ client[f].pc = "fresh" /\ inbound = {}
    /\ inbound' = {<<f, client[f].peer>>}
    /\ UNCHANGED <<client, entry, registryVars, callVars, peers, misled>>

Answer ==
    \E m \in inbound :
        /\ inbound' = inbound \ {m}
        /\ misled' = (misled \/ (m[1] \in Registered /\ client[m[1]].peer # m[2]))
        /\ UNCHANGED <<client, entry, registryVars, callVars, peers>>

-----------------------------------------------------------------------------
(* node_manager_execute: the descriptor is looked up under the lock and    *)
(* used after it; an entry is taken for the answer, the request sent.      *)
Lookup(c, n) ==
    /\ call[c].pc = "idle" /\ invokes < MaxInvokes /\ entry[n] # 0
    /\ invokes' = invokes + 1
    /\ call' = [call EXCEPT ![c] = [pc |-> "found", node |-> n, fd |-> entry[n],
                                    id |-> invokes + 1, peer |-> client[entry[n]].peer,
                                    result |-> NoResult]]
    /\ UNCHANGED <<client, entry, registryVars, pending, asked, inbound, peers, misled>>

Finish(c, result) == call' = [call EXCEPT ![c].pc = "idle", ![c].result = result]

Invoke(c) ==
    /\ call[c].pc = "found"
    /\ LET f == call[c].fd
       IN \/ /\ Cardinality(pending) < MaxPending /\ client[f].pc # "closed"
             /\ pending' = pending \cup {[id |-> call[c].id, done |-> FALSE, result |-> NoResult]}
             /\ asked' = asked \cup {<<client[f].peer, call[c].id, call[c].node>>}
             /\ call' = [call EXCEPT ![c].pc = "waiting"]
             /\ misled' = (misled \/ client[f].peer # call[c].peer)
          \/ /\ Cardinality(pending) >= MaxPending \/ client[f].pc = "closed"
             /\ Finish(c, Failed)
             /\ UNCHANGED <<pending, asked, misled>>
    /\ UNCHANGED <<client, entry, registryVars, inbound, invokes, peers>>

Result_Mut(f) ==   \* whoever waits is told, whatever was asked
    /\ client[f].pc = "reading"
    /\ \E a \in asked :
         /\ a[1] = client[f].peer
         /\ asked' = asked \ {a}
         /\ pending' = {[p EXCEPT !.done = TRUE, !.result = <<a[2], a[3]>>] : p \in pending}
    /\ UNCHANGED <<client, entry, registryVars, call, inbound, invokes, peers, misled>>

(* handle_invoke_result, in the thread of whoever answers: a result nobody *)
(* waits for is dropped.                                                   *)
Result(f) ==
    /\ client[f].pc = "reading"
    /\ \E a \in asked :
         /\ a[1] = client[f].peer
         /\ asked' = asked \ {a}
         /\ pending' = {IF p.id = a[2] THEN [p EXCEPT !.done = TRUE, !.result = <<a[2], a[3]>>] ELSE p :
                        p \in pending}
    /\ UNCHANGED <<client, entry, registryVars, call, inbound, invokes, peers, misled>>

(* The caller is woken, or 30 s have passed.                               *)
Return(c) ==
    /\ call[c].pc = "waiting"
    /\ LET p == CHOOSE q \in pending : q.id = call[c].id
       IN /\ Finish(c, IF p.done THEN p.result ELSE Failed)
          /\ pending' = pending \ {p}
    /\ UNCHANGED <<client, entry, registryVars, asked, inbound, invokes, peers, misled>>

-----------------------------------------------------------------------------
(* A client goes: its node is no longer active, the list of tools is       *)
(* stale, every call that waits, for whichever node, fails, and the        *)
(* descriptor is closed.                                                   *)
Gone(f) ==
    /\ client[f].pc \in {"fresh", "reading"}
    /\ entry' = [n \in Nodes |-> IF entry[n] = f THEN 0 ELSE entry[n]]
    /\ Goto(f, IF entry' # entry THEN "stale" ELSE "waking")
    /\ UNCHANGED <<registryVars, callVars, inbound, peers, misled>>

WakeAll(f) ==
    /\ client[f].pc = "waking"
    /\ pending' = {IF p.done THEN p ELSE [p EXCEPT !.done = TRUE, !.result = Failed] : p \in pending}
    /\ Goto(f, "closing")
    /\ UNCHANGED <<entry, registryVars, call, asked, inbound, invokes, peers, misled>>

Remove(f) ==
    /\ client[f].pc = "closing"
    /\ Goto(f, "closed")
    /\ UNCHANGED <<entry, registryVars, callVars, inbound, peers, misled>>

ClientStep(f) ==
    \/ Register(f) \/ Invalidate(f) \/ Rebuild(f) \/ Rebuilt(f)
    \/ WakeAll(f) \/ Remove(f)

CallerStep(c) == Invoke(c) \/ Return(c)

Next ==
    \/ \E f \in Fds : \/ ClientStep(f) \/ Accept(f) \/ Gone(f) \/ Result(f) \/ Message(f)
                      \/ \E n \in Nodes : ConnectNode(f, n)
    \/ GetTools \/ Answer
    \/ \E c \in Callers : CallerStep(c) \/ \E n \in Nodes : Lookup(c, n)

Spec ==
    /\ Init /\ [][Next]_vars
    /\ \A f \in Fds : WF_vars(ClientStep(f))
    /\ \A c \in Callers : WF_vars(CallerStep(c))

-----------------------------------------------------------------------------
(* A call gets its own answer, from the node it asked: a request reaches   *)
(* no other peer, and a chat is answered to the client that wrote.         *)
AnswerIsOwn ==
    /\ \A c \in Callers : call[c].result \in {NoResult, Failed, <<call[c].id, call[c].node>>}
    /\ ~misled

(* What is offered to the model are the tools of the nodes that are here,  *)
(* unless the list is known to be stale or about to be.                    *)
OfferedAreHere ==
    (~dirty /\ \A f \in Fds : client[f].pc \notin {"hello", "stale"}) => offered = Connected

(* A call on a node and a client that leaves come to their end.            *)
Waiting ==
    \/ \E c \in Callers : call[c].pc # "idle"
    \/ \E f \in Fds : client[f].pc \in {"handshake", "hello", "stale", "waking", "closing"}
CallsEnd == Waiting ~> ~Waiting
=============================================================================
