----------------------------- MODULE RemoteTools -----------------------------
(***************************************************************************)
(* The tools of remote MCP servers: the table of servers, the discovery of *)
(* their tools, the list the agent is offered, and a call on its way       *)
(* through the guard, the built-in tools, the bridge to the local MCP      *)
(* server and the client of the remote ones.                               *)
(*   - tools/mcp_client.c, mcp_bridge.c, mcp_tool_registry.c, mcp_server.c,*)
(*     tool_registry.c and tool_guard.c, channels/nsh_commands.c           *)
(* Both discovery and a call copy what they need under the lock and use    *)
(* the network without it.                                                 *)
(***************************************************************************)
EXTENDS Naturals, Sequences, FiniteSets, SequencesExt

CONSTANTS Servers,     \* names of MCP servers, each with one tool
          MaxServers,  \* MCP_CLIENT_MAX_SERVERS
          Shells,      \* consoles whose commands are run
          Calls,       \* the threads that run tool calls
          MaxCommands, \* commands of the consoles
          MaxAsked,    \* tool calls
          RateMax,     \* AGENT_TOOL_RATE_LIMIT_MAX_CALLS of a sensitive tool in a window
          Overlap,     \* a sensitive tool is called twice at the same time
          Faults       \* "silent": a server that does not answer; "closing": the bridge is
                       \* cleaned up while calls run

VARIABLES server,   \* s_servers: the registration of a name, 0 if there is none
          tools,    \* s_tools: each with the name of its server
          listed,   \* s_tools_json as far as remote tools go
          stale,    \* s_tools_dirty
          shell,    \* what a console is doing: the copy of the table, what was found of it
          asking,   \* a tool call: its phase, its tool, the registration it goes to
          rate,     \* s_rate: the calls recorded in the window
          bridge,   \* g_registry: "up", "closed", or "broken": locked when it was gone
          passed,   \* sensitive calls that did something in the window
          commands, asked

clientVars == <<server, tools>>
listVars == <<listed, stale>>
vars == <<clientVars, listVars, shell, asking, rate, bridge, passed, commands, asked>>

NoCall == [phase |-> "idle", tool |-> "none", to |-> 0]
NoShell == [phase |-> "idle", copy |-> <<>>, found |-> <<>>]
Sensitive == "run_shell"
Registered == {s \in Servers : server[s] # 0}

TypeOK ==
    /\ server \in [Servers -> 0..MaxCommands]
    /\ tools \in Seq(Servers) /\ listed \subseteq Servers /\ stale \in BOOLEAN
    /\ shell \in [Shells -> [phase : {"idle", "asking", "merge", "stale"},
                             copy : Seq(Servers), found : Seq(Servers)]]
    /\ asking \in [Calls -> [phase : {"idle", "builtin", "ran", "bridge", "lookup", "post"},
                             tool : Servers \cup {"none", Sensitive}, to : 0..MaxCommands]]
    /\ rate \in 0..RateMax /\ passed \in 0..MaxAsked
    /\ bridge \in {"up", "closed", "broken"}
    /\ commands \in 0..MaxCommands /\ asked \in 0..MaxAsked

Init ==
    /\ server = [s \in Servers |-> 0] /\ tools = <<>>
    /\ listed = {} /\ stale = TRUE
    /\ shell = [c \in Shells |-> NoShell]
    /\ asking = [k \in Calls |-> NoCall]
    /\ rate = 0 /\ passed = 0 /\ bridge = "up" /\ commands = 0 /\ asked = 0

-----------------------------------------------------------------------------
(* A command of a console. *)
Command(c) ==
    /\ shell[c].phase = "idle" /\ commands < MaxCommands
    /\ commands' = commands + 1
    /\ UNCHANGED <<listVars, asking, rate, bridge, passed, asked>>

(* mcp_add: a name that is there already is refused, and so is one too many*)
Add(c) ==
    /\ Command(c)
    /\ \E s \in Servers \ Registered :
          /\ Cardinality(Registered) < MaxServers
          /\ server' = [server EXCEPT ![s] = commands']
    /\ UNCHANGED <<tools, shell>>

(* mcp_remove: the tools go with their server; the list of the agent is    *)
(* not rebuilt.                                                            *)
OthersTools(s) == SelectSeq(tools, LAMBDA t : t # s)

Forget(c) ==
    /\ Command(c)
    /\ \E s \in Registered : /\ server' = [server EXCEPT ![s] = 0]
                             /\ tools' = OthersTools(s)
    /\ UNCHANGED shell

(* mcp_discover.  Under the lock the table is copied and the tools are     *)
(* cleared; then one server after the other is asked, without it; then     *)
(* what was found is added, and the list of the agent is out of date.      *)
Discover(c) ==
    /\ Command(c)
    /\ Registered # {}
    /\ shell' = [shell EXCEPT ![c] = [NoShell EXCEPT
                    !.phase = "asking",
                    !.copy = SetToSortSeq(Registered, LAMBDA s, t : server[s] < server[t])]]
    /\ tools' = <<>>
    /\ UNCHANGED server

Ask(c) ==
    /\ shell[c].phase = "asking"
    /\ LET copy == shell[c].copy
       IN \E answers \in {TRUE} \cup (IF "silent" \in Faults THEN {FALSE} ELSE {}) :
             shell' = [shell EXCEPT
                ![c] = [phase |-> IF Len(copy) > 1 THEN "asking" ELSE "merge",
                        copy |-> Tail(copy),
                        found |-> IF answers THEN Append(@.found, Head(copy)) ELSE @.found]]
    /\ UNCHANGED <<clientVars, listVars, asking, rate, bridge, passed, commands, asked>>

Merge(c) ==
    /\ shell[c].phase = "merge"
    /\ tools' = tools \o shell[c].found
    /\ shell' = [shell EXCEPT ![c] = [NoShell EXCEPT !.phase = "stale"]]
    /\ UNCHANGED <<server, listVars, asking, rate, bridge, passed, commands, asked>>

Invalidate(c) ==
    /\ shell[c].phase = "stale"
    /\ stale' = TRUE
    /\ shell' = [shell EXCEPT ![c] = NoShell]
    /\ UNCHANGED <<clientVars, listed, asking, rate, bridge, passed, commands, asked>>

ShellStep(c) == Ask(c) \/ Merge(c) \/ Invalidate(c)

-----------------------------------------------------------------------------
(* tool_registry_get_tools_json: the list is built again when it is stale. *)
Offer ==
    /\ stale
    /\ listed' = ToSet(tools) /\ stale' = FALSE
    /\ UNCHANGED <<clientVars, shell, asking, rate, bridge, passed, commands, asked>>

(* tool_registry_execute: the guard, which counts the calls of a sensitive *)
(* tool that ended well; the built-in tools, the bridge, the providers.    *)
Goes(k, phase) == asking' = [asking EXCEPT ![k].phase = phase]
Done(k) == asking' = [asking EXCEPT ![k] = NoCall]

Guarded(tool) == tool = Sensitive => rate < RateMax
Alone == \A k \in Calls : asking[k].tool # Sensitive

Call(k) ==
    /\ asking[k].phase = "idle" /\ asked < MaxAsked
    /\ asked' = asked + 1
    /\ \E tool \in listed \cup {Sensitive} :
          /\ tool = Sensitive => Alone \/ Overlap
          /\ Guarded(tool)
          /\ asking' = [asking EXCEPT ![k] = [NoCall EXCEPT
                           !.phase = IF tool = Sensitive THEN "builtin"
                                    ELSE IF bridge = "up" THEN "bridge" ELSE "lookup",
                           !.tool = tool]]
    /\ UNCHANGED <<clientVars, listVars, shell, rate, bridge, passed, commands>>

Builtin(k) ==
    /\ \/ /\ asking[k].phase = "builtin"
          /\ \/ Goes(k, "ran") /\ passed' = passed + 1
             \/ Done(k) /\ UNCHANGED passed
          /\ UNCHANGED rate
       \/ /\ asking[k].phase = "ran"
          /\ rate' = IF rate < RateMax THEN rate + 1 ELSE rate
          /\ Done(k)
          /\ UNCHANGED passed
    /\ UNCHANGED <<clientVars, listVars, shell, bridge, commands, asked>>

(* The window of the guard passes, and a call that had not been counted    *)
(* counts in the next one.                                                 *)
Window ==
    /\ rate > 0
    /\ rate' = 0
    /\ passed' = Cardinality({k \in Calls : asking[k].phase = "ran"})
    /\ UNCHANGED <<clientVars, listVars, shell, asking, bridge, commands, asked>>

(* mcp_bridge_execute asks the local MCP server, which has no such tool.   *)
Bridge(k) ==
    /\ asking[k].phase = "bridge"
    /\ Goes(k, "lookup")
    /\ bridge' = IF bridge = "closed" THEN "broken" ELSE bridge
    /\ UNCHANGED <<clientVars, listVars, shell, rate, passed, commands, asked>>

(* mcp_bridge_cleanup, at the end of the agent. *)
Close ==
    /\ "closing" \in Faults /\ bridge = "up"
    /\ bridge' = "closed"
    /\ UNCHANGED <<clientVars, listVars, shell, asking, rate, passed, commands, asked>>

(* mcp_client_execute: the tool and its server are looked up and copied,   *)
(* then the request is made.                                               *)
Found(s) == s \in ToSet(tools) /\ server[s] # 0

Lookup(k) ==
    /\ asking[k].phase = "lookup"
    /\ IF Found(asking[k].tool)
       THEN asking' = [asking EXCEPT ![k].phase = "post", ![k].to = server[asking[k].tool]]
       ELSE Done(k)
    /\ UNCHANGED <<clientVars, listVars, shell, rate, bridge, passed, commands, asked>>

Post(k) ==
    /\ asking[k].phase = "post"
    /\ Done(k)
    /\ UNCHANGED <<clientVars, listVars, shell, rate, bridge, passed, commands, asked>>

CallStep(k) == Builtin(k) \/ Bridge(k) \/ Lookup(k) \/ Post(k)

Next ==
    \/ \E c \in Shells :
          Add(c) \/ Forget(c) \/ Discover(c) \/ ShellStep(c)
    \/ \E k \in Calls : Call(k) \/ CallStep(k)
    \/ Offer \/ Window \/ Close

Spec ==
    /\ Init /\ [][Next]_vars
    /\ \A c \in Shells : WF_vars(ShellStep(c))
    /\ \A k \in Calls : WF_vars(CallStep(k))

-----------------------------------------------------------------------------
(* A tool that is known is there once, and so is its server: what was      *)
(* found of a server does not outlive it.                                  *)
KnownOnce == IsInjective(tools) /\ ToSet(tools) \subseteq Registered

(* No more calls of a sensitive tool succeed in a window than the guard    *)
(* allows.                                                                 *)
RateHeld == passed <= RateMax

(* The bridge is not used when it is gone. *)
BridgeAlive == bridge # "broken"

(* A discovery and a call end. *)
Waiting == \/ \E c \in Shells : shell[c].phase # "idle"
           \/ \E k \in Calls : asking[k].phase # "idle"
ToolsAnswer == Waiting ~> ~Waiting
=============================================================================
