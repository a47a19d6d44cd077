----------------------------- MODULE PhoneCalls -----------------------------
(***************************************************************************)
(* Telephone calls over Bluetooth: the callbacks of the hands-free profile *)
(* write the state of the call to a file, a timer of the LVGL thread reads *)
(* it every two seconds and loads the screens, which the user answers.     *)
(*   - lvgldemo/bt_call_handler.c, call_page.c, calling_page.c             *)
(* The dialling screen is never created, so what is guarded by call_screen *)
(* does nothing.                                                           *)
(***************************************************************************)
EXTENDS Naturals

CONSTANTS MaxCalls,   \* calls that come in
          MaxPages,   \* calling screens that are created
          Quick       \* whether a call, a poll or a tap may come within the 300 ms of a load

VARIABLES booted,   \* the callbacks are registered, and the file is reset after that
          line,     \* the state of the call at the telephone
          file,     \* CALL_STATE_FILE
          last,     \* last_state of the timer
          rings,    \* calls that came in
          active,   \* the active screen, the page number with it
          going,    \* the screen that an animation is leaving
          incoming, \* incoming_screen is there
          calling,  \* calling_screen: the number of its page, 0 for NULL
          pages,    \* calling screens created
          deleted   \* those deleted

vars == <<booted, line, file, last, rings, active, going, incoming, calling, pages, deleted>>

States == {"idle", "incoming", "alerting", "active"}
None == <<"none", 0>>
Main == <<"main", 0>>
Offer == <<"incoming", 0>>
Screens == {Main, Offer, <<"other", 0>>} \cup ({"calling"} \X (1..MaxPages))

TypeOK ==
    /\ booted \in {"no", "registered", "yes"}
    /\ line \in States /\ file \in States /\ last \in States
    /\ rings \in 0..MaxCalls
    /\ active \in Screens /\ going \in Screens \cup {None}
    /\ incoming \in BOOLEAN
    /\ calling \in 0..MaxPages /\ pages \in 0..MaxPages
    /\ deleted \subseteq 1..MaxPages

Init ==
    /\ booted = "no"
    /\ line = "idle" /\ file = "idle" /\ last = "idle" /\ rings = 0
    /\ active = Main /\ going = None
    /\ incoming = FALSE /\ calling = 0 /\ pages = 0 /\ deleted = {}

screenVars == <<active, going, incoming, calling, pages, deleted>>

-----------------------------------------------------------------------------
(* The Bluetooth side.  The thread that registers the callbacks writes     *)
(* IDLE when it has.                                                       *)
Register ==
    /\ booted = "no"
    /\ booted' = "registered"
    /\ UNCHANGED <<line, file, last, rings, screenVars>>

Booted ==
    /\ booted = "registered"
    /\ booted' = "yes"
    /\ file' = "idle"
    /\ UNCHANGED <<line, last, rings, screenVars>>

(* A call rings; the other side answers or ends it, or the profile is      *)
(* disconnected.  Each change is written to the file.                      *)
Heard == booted = "yes" \/ (Quick /\ booted = "registered")
Change(state) == line' = state /\ file' = state

Ring ==
    /\ Heard /\ line = "idle" /\ rings < MaxCalls
    /\ Quick \/ (last = "idle" /\ file = "idle" /\ going = None)
    /\ rings' = rings + 1
    /\ Change("incoming")
    /\ UNCHANGED <<booted, last, screenVars>>

CallState ==
    /\ \/ line = "incoming" /\ Change("alerting")
       \/ line \in {"incoming", "alerting"} /\ Change("active")
       \/ line # "idle" /\ Change("idle")
    /\ UNCHANGED <<booted, last, rings, screenVars>>

-----------------------------------------------------------------------------
(* The screens.  A screen that was unloaded runs its handler, which        *)
(* deletes the screen its global names; loading a screen while another is  *)
(* being loaded first ends that load.                                      *)
AfterUnload(old, inc, cal) ==
    CASE old = Offer -> [inc |-> FALSE, cal |-> cal, gone |-> {}]
      [] old[1] = "calling" -> [inc |-> inc, cal |-> 0, gone |-> {cal} \ {0}]
      [] OTHER -> [inc |-> inc, cal |-> cal, gone |-> {}]

Load(screen, inc, cal) ==
    IF active = screen
    THEN incoming' = inc /\ calling' = cal /\ UNCHANGED <<active, going, deleted>>
    ELSE LET u == AfterUnload(going, inc, cal)
         IN /\ incoming' = u.inc /\ calling' = u.cal
            /\ deleted' = deleted \cup u.gone
            /\ going' = active /\ active' = screen

Unloaded ==
    /\ going # None
    /\ LET u == AfterUnload(going, incoming, calling)
       IN incoming' = u.inc /\ calling' = u.cal /\ deleted' = deleted \cup u.gone
    /\ going' = None
    /\ UNCHANGED <<booted, line, file, last, rings, active, pages>>

(* show_calling_page creates the page unless there is one.                 *)
ShowCalling(inc) ==
    IF calling # 0 THEN Load(<<"calling", calling>>, inc, calling) /\ UNCHANGED pages
    ELSE /\ pages < MaxPages
         /\ pages' = pages + 1
         /\ Load(<<"calling", pages + 1>>, inc, pages + 1)

(* call_state_timer_cb: what changed since the last time is shown.         *)
Poll ==
    /\ booted = "yes"
    /\ Quick \/ going = None
    /\ last' = file
    /\ CASE file = "incoming" /\ last # "incoming" ->
              (IF incoming THEN UNCHANGED <<active, going, incoming, calling, deleted>>
               ELSE Load(Offer, TRUE, calling)) /\ UNCHANGED pages
         [] file \in {"alerting", "active"} /\ last # file -> ShowCalling(incoming)
         [] file = "idle" /\ last # "idle" ->
              Load(Main, incoming, calling) /\ UNCHANGED pages
         [] OTHER -> UNCHANGED screenVars
    /\ UNCHANGED <<booted, line, file, rings>>

(* The user answers a call, refuses it, hangs up, or leaves the screen: a  *)
(* swipe on the offer shows the calling page, too.                         *)
Sees(screen) == (active = screen /\ (Quick \/ going = None)) \/ (Quick /\ going = screen)
OnCalling == \E p \in 1..MaxPages : Sees(<<"calling", p>>)

Accept ==
    /\ Sees(Offer)
    /\ ShowCalling(incoming)
    /\ UNCHANGED <<booted, line, file, last, rings>>

Reject ==
    /\ Sees(Offer)
    /\ Load(Main, incoming, calling)
    /\ UNCHANGED <<booted, line, file, last, rings, pages>>

HangUp ==
    /\ OnCalling
    /\ Load(Main, incoming, 0)
    /\ UNCHANGED <<booted, line, file, last, rings, pages>>

GoElsewhere ==
    /\ active = Main /\ (Quick \/ going = None)
    /\ Load(<<"other", 0>>, incoming, calling)
    /\ UNCHANGED <<booted, line, file, last, rings, pages>>

Next ==
    \/ Register \/ Booted \/ Ring \/ CallState
    \/ Unloaded \/ Poll \/ Accept \/ Reject \/ HangUp \/ GoElsewhere

UiStep == Unloaded \/ (Poll /\ last # file)

Spec == Init /\ [][Next]_vars /\ WF_vars(UiStep)

-----------------------------------------------------------------------------
(* The screen that is shown has not been deleted, and the globals name     *)
(* screens that exist: the handlers that delete "the" screen delete theirs.*)
ScreenAlive ==
    /\ active[1] = "calling" => active[2] \notin deleted
    /\ calling \notin deleted

(* A call that is over leaves the screen, one that keeps ringing gets it,  *)
(* and an answered one that nobody hung up is shown.                       *)
Waiting == file # last \/ going # None
CallIsShown == Waiting ~> ~Waiting
NoGhostCall == last = "idle" /\ file = "idle" => active[1] \in {"main", "other"}
=============================================================================
