--------------------------- MODULE NetworkManager ---------------------------
(***************************************************************************)
(* The network of a board without WiFi of its own                          *)
(* (CONFIG_AI_AGENT_NET_RPMSG): threads that look at the interfaces every  *)
(* five seconds, the watcher that starts the services, the shell, and the  *)
(* places for connections that every TLS connection takes and gives back.  *)
(*   - infra/network_manager.c, infra/vela_tls.c, agent_main.c and         *)
(*     channels/nsh_commands.c                                             *)
(* One mutex and one condition variable serve the places and the polling   *)
(* threads.  Bluetooth stays connected: nothing calls ble_state_callback.  *)
(* There is no /proc/net/iob.  The listener of agent_main.c is registered  *)
(* when the services run, and then only logs.                              *)
(***************************************************************************)
EXTENDS Naturals, FiniteSets

CONSTANTS Users,      \* threads that make TLS connections
          MaxConns,   \* NET_MAX_TCP_CONNS
          MaxInits,   \* calls of network_rpmsg_init
          MaxFlips,   \* changes of the link
          MaxUses,    \* connections
          MaxForced,  \* calls of network_reconnect
          Rejoin      \* whether network_rpmsg_init is called while connections are in use

Pollers == 1..MaxInits

VARIABLES link,    \* an interface has an address
          state,   \* g_net_status.state is NET_STATE_CONNECTED
          force,   \* g_force_check
          poll,    \* where each polling thread is
          watch,   \* where network_watch_task is
          started, \* g_net_services_started
          active,  \* g_net_status.active_conns
          user,    \* where each thread is with its connection
          inits, flips, uses, forced

vars == <<link, state, force, poll, watch, started, active, user, inits, flips, uses, forced>>
bounds == <<flips, uses, forced>>

TypeOK ==
    /\ link \in BOOLEAN /\ state \in BOOLEAN /\ force \in BOOLEAN /\ started \in BOOLEAN
    /\ poll \in [Pollers -> {"none", "look", "up", "down", "pause", "asleep", "woken"}]
    /\ watch \in {"init", "wait", "retry", "look", "done"}
    /\ active \in Nat
    /\ user \in [Users -> {"idle", "asking", "waiting", "woken", "connecting", "open", "refused"}]
    /\ inits \in 0..MaxInits /\ flips \in 0..MaxFlips
    /\ uses \in 0..MaxUses /\ forced \in 0..MaxForced

Init ==
    /\ link \in BOOLEAN /\ state = FALSE /\ force = FALSE /\ started = FALSE
    /\ poll = [p \in Pollers |-> "none"]
    /\ watch = "init"
    /\ active = 0
    /\ user = [u \in Users |-> "idle"]
    /\ inits = 0 /\ flips = 0 /\ uses = 0 /\ forced = 0

-----------------------------------------------------------------------------
(* g_net_cond: whoever sleeps on it is woken.                              *)
PollersWoken == [p \in Pollers |-> IF poll[p] = "asleep" THEN "woken" ELSE poll[p]]
UsersWoken == [u \in Users |-> IF user[u] = "waiting" THEN "woken" ELSE user[u]]

(* A signal wakes one of them, whoever that is.                            *)
Signal ==
    \/ \E p \in Pollers : poll[p] = "asleep" /\ poll' = [poll EXCEPT ![p] = "woken"]
                          /\ UNCHANGED user
    \/ \E u \in Users : user[u] = "waiting" /\ user' = [user EXCEPT ![u] = "woken"]
                        /\ UNCHANGED poll
    \/ /\ \A p \in Pollers : poll[p] # "asleep"
       /\ \A u \in Users : user[u] # "waiting"
       /\ UNCHANGED <<poll, user>>

(* network_rpmsg_init writes the status without the mutex and starts one   *)
(* more thread; the ones before it go on.                                  *)
RpmsgInit ==
    /\ inits < MaxInits
    /\ Rejoin \/ \A u \in Users : user[u] = "idle"
    /\ inits' = inits + 1
    /\ state' = FALSE /\ active' = 0 /\ force' = FALSE
    /\ poll' = [poll EXCEPT ![inits + 1] = "look"]
    /\ UNCHANGED <<link, user, bounds>>

-----------------------------------------------------------------------------
(* iface_poll_thread: it looks at the interfaces, tells what it saw, and   *)
(* sleeps for the interval unless a check is asked for.                    *)
Look(p) ==
    /\ poll[p] = "look"
    /\ poll' = [poll EXCEPT ![p] = IF link THEN "up" ELSE "down"]
    /\ UNCHANGED <<link, state, force, watch, started, active, user, inits, bounds>>

SetState(p) ==
    /\ poll[p] \in {"up", "down"}
    /\ state' = (poll[p] = "up")
    /\ IF state' # state
       THEN poll' = [PollersWoken EXCEPT ![p] = "pause"] /\ user' = UsersWoken
       ELSE poll' = [poll EXCEPT ![p] = "pause"] /\ UNCHANGED user
    /\ UNCHANGED <<link, force, watch, started, active, inits, bounds>>

Pause(p) ==
    /\ poll[p] \in {"pause", "woken"}
    /\ poll' = [poll EXCEPT ![p] = IF force THEN "look" ELSE "asleep"]
    /\ force' = FALSE
    /\ UNCHANGED <<link, state, watch, started, active, user, inits, bounds>>

IntervalEnds(p) ==
    /\ poll[p] \in {"asleep", "woken"}
    /\ poll' = [poll EXCEPT ![p] = "look"]
    /\ force' = FALSE
    /\ UNCHANGED <<link, state, watch, started, active, user, inits, bounds>>

PollStep(p) == Look(p) \/ SetState(p) \/ Pause(p) \/ IntervalEnds(p)

(* network_reconnect, from the shell.                                      *)
Reconnect ==
    /\ forced < MaxForced
    /\ forced' = forced + 1
    /\ state' = FALSE /\ force' = TRUE
    /\ Signal
    /\ UNCHANGED <<link, watch, started, active, inits, flips, uses>>

(* set_wifi and wifi_reconnect, from the shell.                            *)
Join == RpmsgInit /\ UNCHANGED <<watch, started>>

-----------------------------------------------------------------------------
(* network_watch_task joins the network, waits for it, tries again every   *)
(* five seconds, and starts the services.                                  *)
WatchJoins ==
    \/ watch = "init" /\ RpmsgInit /\ watch' = "wait" /\ UNCHANGED started
    \/ watch = "retry" /\ RpmsgInit /\ watch' = "look" /\ UNCHANGED started

WatchLooks ==
    /\ watch \in {"wait", "look"}
    /\ IF link THEN watch' = "done" /\ started' = TRUE
       ELSE watch' = "retry" /\ UNCHANGED started
    /\ UNCHANGED <<link, state, force, poll, active, user, inits, bounds>>

WatchStep == WatchJoins \/ WatchLooks

-----------------------------------------------------------------------------
(* A TLS connection.  tls_ctx_connect may fail before it asks for a place, *)
(* while it waits for one, and when it has one; tls_ctx_free gives a place *)
(* back in any case.                                                       *)
Go(u, where) == user' = [user EXCEPT ![u] = where]

Begin(u) ==
    /\ started /\ user[u] = "idle" /\ uses < MaxUses
    /\ uses' = uses + 1
    /\ Go(u, "asking") \/ Go(u, "refused")
    /\ UNCHANGED <<link, state, force, poll, watch, started, active, inits, flips, forced>>

Acquire(u) ==
    /\ user[u] \in {"asking", "woken"}
    /\ IF active < MaxConns THEN active' = active + 1 /\ Go(u, "connecting")
       ELSE UNCHANGED active /\ Go(u, "waiting")
    /\ UNCHANGED <<link, state, force, poll, watch, started, inits, bounds>>

TimesOut(u) ==
    /\ user[u] \in {"waiting", "woken"}
    /\ Go(u, "refused")
    /\ UNCHANGED <<link, state, force, poll, watch, started, active, inits, bounds>>

Connect(u) ==
    /\ user[u] = "connecting" /\ link
    /\ Go(u, "open")
    /\ UNCHANGED <<link, state, force, poll, watch, started, active, inits, bounds>>

Released == IF active > 0 THEN active - 1 ELSE 0

Free(u) ==
    /\ user[u] \in {"connecting", "open", "refused"}
    /\ active' = Released
    /\ user' = [UsersWoken EXCEPT ![u] = "idle"]
    /\ poll' = PollersWoken
    /\ UNCHANGED <<link, state, force, watch, started, inits, bounds>>

UserStep(u) == Acquire(u) \/ TimesOut(u) \/ (user[u] # "open" /\ Free(u))

-----------------------------------------------------------------------------
Flip ==
    /\ flips < MaxFlips
    /\ flips' = flips + 1 /\ link' = ~link
    /\ UNCHANGED <<state, force, poll, watch, started, active, user, inits, uses, forced>>

Next ==
    \/ \E p \in Pollers : PollStep(p)
    \/ Reconnect \/ Join \/ WatchStep \/ Flip
    \/ \E u \in Users : Begin(u) \/ Acquire(u) \/ TimesOut(u) \/ Connect(u) \/ Free(u)

Spec == /\ Init /\ [][Next]_vars
        /\ \A p \in Pollers : WF_vars(PollStep(p))
        /\ \A u \in Users : WF_vars(UserStep(u))
        /\ WF_vars(WatchStep)

-----------------------------------------------------------------------------
(* A place that is counted is held by a connection: nobody waits for one   *)
(* that nobody will give back.                                             *)
Holders == {u \in Users : user[u] \in {"connecting", "open"}}
PlacesHeld == active <= Cardinality(Holders) /\ active <= MaxConns

(* Whoever sleeps for a place sleeps while all are taken, or someone who   *)
(* was woken is on the way to the free one: a signal for the polling       *)
(* threads that wakes a connection instead does not cost it its wait.      *)
PlaceReaches ==
    (\E u \in Users : user[u] = "waiting") =>
        active = MaxConns \/ \E u \in Users : user[u] = "woken"

(* The state that is told follows the link although several threads write  *)
(* it, checks that are asked for are made, the services are started once   *)
(* there is a link, and connections get a place or give up.                *)
Waiting ==
    \/ \E p \in Pollers : poll[p] # "none" /\ (force \/ state # link)
    \/ \E u \in Users : user[u] \in {"asking", "waiting", "woken"}
    \/ link /\ ~started /\ (watch \in {"init", "retry"} => inits < MaxInits)
NetworkEnds == Waiting ~> ~Waiting
=============================================================================
