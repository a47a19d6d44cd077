----------------------------- MODULE HttpsClient -----------------------------
(***************************************************************************)
(* The requests the agent makes: chat completions, streamed answers, REST  *)
(* calls and the look at a server's clock, with the two pools that keep    *)
(* their connections open.                                                 *)
(*   - infra/vela_tls.c, infra/http_proxy.c                                *)
(*   - llm/llm_proxy.c and llm/llm_stream.c                                *)
(* vela_tls keeps a few slots that a request locks; the stream client has  *)
(* one connection, which a request takes out and puts back.  A connection  *)
(* is modelled by what the client cannot see of it: whether the server has *)
(* closed it, and what of an earlier answer is still on the wire.          *)
(***************************************************************************)
EXTENDS Naturals, FiniteSets

CONSTANTS Requests,  \* one thread, and one request, each
          Warmers,   \* threads of llm_pool_preconnect
          Hosts,     \* the servers
          Kinds,     \* "chat", "tools", "rest", "talk" (streamed), "date"
          Slots,     \* the slots of vela_tls, CONN_POOL_SIZE of them
          Pieces,    \* data lines of a streamed answer
          MaxRetries,\* AGENT_LLM_MAX_RETRIES
          Faults     \* "connect", "drop" (an idle connection is closed), "rest" (more than the
                     \* buffer holds), "limit" (429); "late", "tail", "together", "config" and
                     \* "cut" are the faults the code does not take

VARIABLES llm,       \* s_llm_host: the server of the model
          proxy,     \* a proxy is configured; the console sets it before anything is asked
          slot,      \* s_pool of vela_tls: host, inUse, valid, and the connection in it
          spare,     \* s_llm_pool: the host and the connection, or none
          req,       \* a request, where it is and what it holds
          warmer,    \* a preconnect thread: its phase, the host, the connection
          served,    \* how often the server has done a request
          sockets    \* connections the client has not closed

netVars == <<llm, proxy, slot, spare, req, warmer, served, sockets>>

None == [host |-> "none", up |-> FALSE, rest |-> FALSE]
Fresh(h) == [host |-> h, up |-> TRUE, rest |-> FALSE]
Conns == {None} \cup [host : Hosts, up : BOOLEAN, rest : BOOLEAN]
NoSlot == 0
Phases == {"new", "acquire", "drain", "connect", "write", "read", "again", "take", "stream", "ok",
           "failed"}

NotAsked == [phase |-> "new", kind |-> "none", host |-> "none", about |-> "none",
              slot |-> NoSlot, conn |-> None, reused |-> FALSE, tried |-> 0,
              limited |-> FALSE, parsed |-> 0, got |-> 0, told |-> 0]
Over(r) == req[r].phase \in {"new", "ok", "failed"}
Ended(q, how) == [NotAsked EXCEPT !.phase = how, !.kind = q.kind, !.told = q.told]

TypeOK ==
    /\ llm \in Hosts /\ proxy \in BOOLEAN
    /\ slot \in [Slots -> [host : Hosts \cup {"none"}, inUse : BOOLEAN, valid : BOOLEAN,
                           conn : Conns]]
    /\ spare \in Conns
    /\ req \in [Requests -> [phase : Phases, kind : Kinds \cup {"none"},
                             host : Hosts \cup {"none"}, about : Hosts \cup {"none"},
                             slot : Slots \cup {NoSlot}, conn : Conns, reused : BOOLEAN,
                             tried : 0..MaxRetries, limited : BOOLEAN, parsed : 0..2,
                             got : 0..Pieces, told : 0..2 * Pieces]]
    /\ warmer \in [Warmers -> [phase : {"idle", "connect", "return", "over"},
                               host : Hosts \cup {"none"}, conn : Conns]]
    /\ served \in [Requests -> Nat] /\ sockets \in Nat

Init ==
    /\ llm \in Hosts /\ proxy \in BOOLEAN
    /\ slot = [s \in Slots |-> [host |-> "none", inUse |-> FALSE, valid |-> FALSE, conn |-> None]]
    /\ spare = None
    /\ req = [r \in Requests |-> NotAsked]
    /\ warmer = [w \in Warmers |-> [phase |-> "idle", host |-> "none", conn |-> None]]
    /\ served = [r \in Requests |-> 0] /\ sockets = 0

Count(c) == IF c = None THEN 0 ELSE 1

-----------------------------------------------------------------------------
(* The configuration.  A request copies it under the lock: once for the    *)
(* model its body names, and once more when it is sent.                    *)
AskingTheModel == \E r \in Requests : ~Over(r) /\ req[r].kind \in {"chat", "tools", "talk"}

SetAll(h) ==
    /\ h # llm /\ ("config" \in Faults \/ ~AskingTheModel)
    /\ llm' = h
    /\ UNCHANGED <<proxy, slot, spare, req, warmer, served, sockets>>

(* A new request.  What asks the model takes its server from the           *)
(* configuration; with a proxy, llm_http_call takes a tunnel of its own    *)
(* for it.  A REST call names its server, and the clock is asked on a      *)
(* connection of its own.                                                  *)
Ask(r) ==
    /\ req[r].phase = "new"
    /\ \E kind \in Kinds, h \in Hosts :
          /\ kind \in {"chat", "tools", "talk"} => h = llm
          /\ req' = [req EXCEPT ![r].phase = "again", ![r].kind = kind, ![r].about = h]
    /\ UNCHANGED <<llm, proxy, slot, spare, warmer, served, sockets>>

Route(r) ==
    /\ req[r].phase = "again"
    /\ req' = [req EXCEPT
         ![r].host = IF req[r].kind \in {"chat", "tools", "talk"} THEN llm ELSE req[r].about,
         ![r].phase = CASE req[r].kind = "talk" -> "take"
                        [] req[r].kind = "date" -> "connect"
                        [] req[r].kind \in {"chat", "tools"} /\ proxy -> "connect"
                        [] OTHER -> "acquire"]
    /\ UNCHANGED <<llm, proxy, slot, spare, warmer, served, sockets>>

-----------------------------------------------------------------------------
(* The slots of vela_tls.  A free slot with a connection to the server is  *)
(* taken before an empty one, and an empty one before another server's,    *)
(* whose connection is closed; when all are in use, none.                  *)
SameHost(h) == {s \in Slots : slot[s].valid /\ ~slot[s].inUse /\ slot[s].host = h}
Empty == {s \in Slots : ~slot[s].valid /\ ~slot[s].inUse}
Unused == {s \in Slots : ~slot[s].inUse}
First(S) == {s \in S : \A t \in S : s <= t}

Acquire(r) ==
    /\ req[r].phase = "acquire"
    /\ LET same == SameHost(req[r].host)
           from == IF same # {} THEN same ELSE IF Empty # {} THEN Empty ELSE Unused
       IN \/ /\ from = {}
             /\ req' = [req EXCEPT ![r].phase = "connect"]
             /\ UNCHANGED <<slot, sockets>>
          \/ \E s \in First(from) :
                /\ req' = [req EXCEPT ![r].slot = s, ![r].reused = (same # {}),
                                      ![r].phase = IF same # {} THEN "drain" ELSE "connect"]
                /\ slot' = [slot EXCEPT ![s].inUse = TRUE,
                                        ![s].valid = same # {},
                                        ![s].conn = IF same # {} THEN @ ELSE None]
                /\ sockets' = sockets - (IF same # {} THEN 0 ELSE Count(slot[s].conn))
    /\ UNCHANGED <<llm, proxy, spare, warmer, served>>

(* The connection a request uses: the one in its slot, or its own.         *)
Conn(r) == IF req[r].slot = NoSlot THEN req[r].conn ELSE slot[req[r].slot].conn

(* The rest of the last answer stays, and is read as the next one's. *)
Drain_Mut(r) ==
    /\ req[r].phase = "drain"
    /\ req' = [req EXCEPT ![r].phase = "write"]
    /\ UNCHANGED <<llm, proxy, slot, spare, warmer, served, sockets>>

(* What is left of an earlier answer is read away; if that ends with the   *)
(* connection, or with nothing to read (which of its codes the library     *)
(* returns is its choice), a new connection is made.                       *)
Drain(r) ==
    /\ req[r].phase = "drain"
    /\ \/ /\ Conn(r).up
          /\ slot' = [slot EXCEPT ![req[r].slot].conn.rest = FALSE]
          /\ req' = [req EXCEPT ![r].phase = "write"]
          /\ UNCHANGED sockets
       \/ /\ slot' = [slot EXCEPT ![req[r].slot].conn = None, ![req[r].slot].valid = FALSE]
          /\ req' = [req EXCEPT ![r].phase = "connect", ![r].reused = FALSE]
          /\ sockets' = sockets - 1
    /\ UNCHANGED <<llm, proxy, spare, warmer, served>>

-----------------------------------------------------------------------------
(* How a request that lost its connection or its answer ends.  The slot is *)
(* given up, llm_chat tries again, and llm_chat_tools and the others fail. *)
Again(q) == [NotAsked EXCEPT !.phase = "again", !.kind = q.kind, !.about = q.about,
                              !.tried = q.tried + 1]

GiveUp(r) ==
    LET again == req[r].kind = "chat" /\ req[r].tried < MaxRetries
    IN /\ req' = [req EXCEPT ![r] = IF again THEN Again(@) ELSE Ended(@, "failed")]
       /\ slot' = IF req[r].slot = NoSlot THEN slot
                  ELSE [slot EXCEPT ![req[r].slot] = [host |-> "none", inUse |-> FALSE,
                                                      valid |-> FALSE, conn |-> None]]
       /\ sockets' = sockets - Count(Conn(r))

(* A connection, through the proxy's tunnel if one is set.                 *)
Connect(r) ==
    /\ req[r].phase = "connect"
    /\ \/ /\ "connect" \in Faults /\ GiveUp(r)
       \/ /\ slot' = IF req[r].slot = NoSlot THEN slot
                     ELSE [slot EXCEPT ![req[r].slot].conn = Fresh(req[r].host)]
          /\ req' = [req EXCEPT ![r].conn = IF req[r].slot = NoSlot THEN Fresh(req[r].host) ELSE @,
                                ![r].phase = "write"]
          /\ sockets' = sockets + 1
    /\ UNCHANGED <<llm, proxy, spare, warmer, served>>

(* A reused connection that failed is replaced by a new one, on which the  *)
(* request is sent once more; a new one that failed ends the request.      *)
Fail(r) ==
    \/ ~req[r].reused /\ GiveUp(r)
    \/ /\ req[r].reused
       /\ req' = [req EXCEPT ![r].reused = FALSE, ![r].phase = "connect", ![r].conn = None,
                             ![r].parsed = 0, ![r].got = 0]
       /\ slot' = IF req[r].slot = NoSlot THEN slot
                  ELSE [slot EXCEPT ![req[r].slot].conn = None, ![req[r].slot].valid = FALSE]
       /\ sockets' = sockets - 1

(* The server does what reaches it, unless it has enough.                  *)
Write(r) ==
    /\ req[r].phase = "write"
    /\ IF Conn(r).up
       THEN \E limited \in (IF "limit" \in Faults THEN BOOLEAN ELSE {FALSE}) :
              /\ served' = [served EXCEPT ![r] = IF limited THEN @ ELSE @ + 1]
              /\ req' = [req EXCEPT ![r].limited = limited,
                            ![r].phase = IF req[r].kind = "talk" THEN "stream" ELSE "read"]
              /\ UNCHANGED <<slot, sockets>>
       ELSE Fail(r) /\ UNCHANGED served
    /\ UNCHANGED <<llm, proxy, spare, warmer>>

(* How a request that has its answer ends: its slot keeps the connection   *)
(* as keep says, a connection of its own is closed.                        *)
Settle(r, keep, rest) ==
    LET s == req[r].slot
        retry == req[r].limited /\ req[r].kind \in {"chat", "tools"} /\ req[r].tried < MaxRetries
    IN /\ slot' = IF s = NoSlot THEN slot
                  ELSE [slot EXCEPT ![s] =
                          IF keep THEN [host |-> req[r].host, inUse |-> FALSE, valid |-> TRUE,
                                        conn |-> [@.conn EXCEPT !.rest = rest]]
                          ELSE [host |-> "none", inUse |-> FALSE, valid |-> FALSE, conn |-> None]]
       /\ sockets' = sockets - (IF s # NoSlot /\ keep THEN 0 ELSE 1)
       /\ req' = [req EXCEPT ![r] = IF retry THEN Again(@)
                                    ELSE Ended(@, IF @.limited THEN "failed" ELSE "ok")]

(* tls_read_response and proxy_conn_read.  What is left of an earlier      *)
(* answer has no status line; an answer longer than the buffer leaves its  *)
(* rest; an answer that comes too late counts as a connection lost.        *)
Read(r) ==
    /\ req[r].phase = "read"
    /\ IF Conn(r).rest THEN Fail(r)
       ELSE \/ \E keep \in BOOLEAN : Settle(r, keep, FALSE)
            \/ "rest" \in Faults /\ Settle(r, TRUE, TRUE)
            \/ "late" \in Faults /\ Fail(r)
    /\ UNCHANGED <<llm, proxy, spare, warmer, served>>

-----------------------------------------------------------------------------
(* The one connection of the stream client.  A request takes it out if it  *)
(* is to its server and a look at it does not say that it is dead (with    *)
(* nothing to read, which of its codes the library returns is its choice). *)
Take(r) ==
    /\ req[r].phase = "take"
    /\ IF spare.host = req[r].host
       THEN \/ /\ spare.up
               /\ req' = [req EXCEPT ![r].conn = spare, ![r].reused = TRUE, ![r].phase = "write"]
               /\ UNCHANGED sockets
            \/ /\ req' = [req EXCEPT ![r].phase = "connect"]
               /\ sockets' = sockets - 1
       ELSE /\ req' = [req EXCEPT ![r].phase = "connect"]
            /\ UNCHANGED sockets
    /\ spare' = IF spare.host = req[r].host THEN None ELSE spare
    /\ UNCHANGED <<llm, proxy, slot, warmer, served>>

(* A connection is put back: the one that is there is closed.              *)
Return(c) == /\ spare' = c
             /\ sockets' = sockets - Count(spare)

(* An answer is read and its lines are handed on as they come.  The header *)
(* comes alone or with all of the answer; lines that come with it are      *)
(* handed on again with the next ones.  The last line puts the connection  *)
(* back, or closes it if the server said so.                               *)
Arriving(r) == IF req[r].parsed = 0
               THEN {0, Pieces} \cup (IF "together" \in Faults THEN 1..Pieces ELSE {})
               ELSE 1..(Pieces - req[r].got)

Stream(r) ==
    /\ req[r].phase = "stream"
    /\ \/ /\ Conn(r).rest /\ Fail(r)
          /\ UNCHANGED spare
       \/ /\ ~Conn(r).rest /\ req[r].limited
          /\ GiveUp(r)
          /\ UNCHANGED spare
       \/ /\ ~Conn(r).rest /\ ~req[r].limited
          /\ \E n \in Arriving(r) :
                LET got == req[r].got + n
                    over == got = Pieces
                    read == [req[r] EXCEPT
                               !.got = got,
                               !.told = @ + n + (IF req[r].parsed = 1 THEN req[r].got ELSE 0),
                               !.parsed = IF @ = 0 THEN 1 ELSE 2]
                IN /\ req' = [req EXCEPT ![r] = IF over THEN Ended(read, "ok") ELSE read]
                   /\ \/ over /\ \E tail \in (IF "tail" \in Faults THEN BOOLEAN ELSE {FALSE}) :
                                   Return([Conn(r) EXCEPT !.rest = tail])
                      \/ over /\ sockets' = sockets - 1 /\ UNCHANGED spare
                      \/ ~over /\ UNCHANGED <<spare, sockets>>
          /\ UNCHANGED slot
       \/ /\ "cut" \in Faults
          /\ req' = [req EXCEPT ![r] = Ended(@, "ok")]
          /\ sockets' = sockets - 1
          /\ UNCHANGED <<spare, slot>>
    /\ UNCHANGED <<llm, proxy, warmer, served>>

(* A connection made in advance, when there is none.                       *)
Warm(w) ==
    /\ warmer[w].phase = "idle" /\ spare = None
    /\ warmer' = [warmer EXCEPT ![w].phase = "connect", ![w].host = llm]
    /\ UNCHANGED <<llm, proxy, slot, spare, req, served, sockets>>

WarmConnect(w) ==
    /\ warmer[w].phase = "connect"
    /\ \/ /\ "connect" \in Faults
          /\ warmer' = [warmer EXCEPT ![w].phase = "over", ![w].host = "none"]
          /\ UNCHANGED sockets
       \/ /\ warmer' = [warmer EXCEPT ![w].phase = "return", ![w].host = "none",
                                       ![w].conn = Fresh(warmer[w].host)]
          /\ sockets' = sockets + 1
    /\ UNCHANGED <<llm, proxy, slot, spare, req, served>>

WarmReturn(w) ==
    /\ warmer[w].phase = "return"
    /\ Return(warmer[w].conn)
    /\ warmer' = [warmer EXCEPT ![w].phase = "over", ![w].conn = None]
    /\ UNCHANGED <<llm, proxy, slot, req, served>>

(* Two minutes without a request close it.                                 *)
IdleCheck ==
    /\ spare # None
    /\ spare' = None /\ sockets' = sockets - 1
    /\ UNCHANGED <<llm, proxy, slot, req, warmer, served>>

(* The shutdown closes the slots that no request uses.                     *)
Cleanup ==
    /\ \E s \in Unused : slot[s].valid
    /\ slot' = [s \in Slots |-> IF slot[s].inUse THEN slot[s]
                                ELSE [host |-> "none", inUse |-> FALSE, valid |-> FALSE,
                                      conn |-> None]]
    /\ sockets' = sockets - Cardinality({s \in Unused : slot[s].conn # None})
    /\ UNCHANGED <<llm, proxy, spare, req, warmer, served>>

(* A server closes a connection that nobody reads.                         *)
Drop ==
    /\ "drop" \in Faults
    /\ \/ /\ spare.up
          /\ spare' = [spare EXCEPT !.up = FALSE]
          /\ UNCHANGED slot
       \/ /\ \E s \in Slots :
                /\ slot[s].conn.up
                /\ \A r \in Requests : req[r].slot = s => req[r].phase \in {"drain", "write"}
                /\ slot' = [slot EXCEPT ![s].conn.up = FALSE]
          /\ UNCHANGED spare
    /\ UNCHANGED <<llm, proxy, req, warmer, served, sockets>>

-----------------------------------------------------------------------------
RequestStep(r) == \/ Route(r) \/ Acquire(r) \/ Drain(r) \/ Connect(r) \/ Write(r) \/ Read(r)
                  \/ Take(r) \/ Stream(r)
WarmerStep(w) == WarmConnect(w) \/ WarmReturn(w)

Next == \/ \E h \in Hosts : SetAll(h)
        \/ IdleCheck \/ Cleanup \/ Drop
        \/ \E r \in Requests : Ask(r) \/ RequestStep(r)
        \/ \E w \in Warmers : Warm(w) \/ WarmerStep(w)

Spec == /\ Init /\ [][Next]_netVars
        /\ \A r \in Requests : WF_netVars(RequestStep(r))
        /\ \A w \in Warmers : WF_netVars(WarmerStep(w))

-----------------------------------------------------------------------------
(* A slot in use has one request, and a request a slot in use: two         *)
(* requests never write to the same connection.                            *)
OneUser == \A s \in Slots :
             Cardinality({r \in Requests : req[r].slot = s}) = IF slot[s].inUse THEN 1 ELSE 0

(* A request is sent to the server it was written for: the connection it   *)
(* took from a pool is to that server, and the configuration it was built  *)
(* from is the one it is sent by.                                          *)
SentToItsHost == \A r \in Requests : req[r].phase \in {"write", "read", "stream"} =>
                    Conn(r).host = req[r].host /\ req[r].host = req[r].about

(* Every connection that was opened and not closed is somewhere: in a      *)
(* slot, kept by the stream client, or with a request or a thread.         *)
NoSocketLost ==
    sockets = Cardinality({s \in Slots : slot[s].conn # None})
              + Cardinality({r \in Requests : req[r].conn # None})
              + Cardinality({w \in Warmers : warmer[w].conn # None}) + Count(spare)

(* A server does a request once, however many connections it was tried on. *)
DoneOnce == \A r \in Requests : served[r] <= 1

(* A streamed answer is handed on line by line, none twice and none lost.  *)
StreamedOnce == \A r \in Requests :
                  req[r].phase = "ok" /\ req[r].kind = "talk" => req[r].told = Pieces

(* A request ends, with an answer or without.                              *)
Asking == \E r \in Requests : ~Over(r)
RequestsEnd == Asking ~> ~Asking
=============================================================================
