------------------------------ MODULE WifiPage ------------------------------
(***************************************************************************)
(* The WiFi page and the thread that keeps the board connected: the LVGL   *)
(* thread scans in threads of its own and connects itself, blocking; the   *)
(* other thread scans for a network it has the password of whenever the    *)
(* link is down.  Both drive the same radio and the same DHCP handle.      *)
(*   - lvgldemo/wifi_page.c                                                *)
(* The right password of a network is its name.  All networks are in range.*)
(***************************************************************************)
EXTENDS Naturals, Sequences, FiniteSets, SequencesExt

CONSTANTS Ssids,       \* networks
          MaxSaved,    \* WIFI_MAX_SAVED
          FailLimit,   \* WIFI_IF_RESET_FAIL_COUNT
          MaxVisits,   \* times the page is entered
          MaxScans,    \* scans that the user starts
          MaxConnects, \* passwords that the user enters
          MaxDrops,    \* times that the link is lost or the driver is stuck
          Faults       \* of "beside", "slow", "leave": connections of both threads at a time,
                       \* one that takes more than three seconds, leaving within a scan

VARIABLES page,     \* the active screen
          calls,    \* what lvgl_dispatch_async was given
          list,     \* what wifi_ap_list shows, "none" for NULL
          scanning, \* scan threads
          modal,    \* wifi_connecting_ssid while its password is asked for
          user,     \* the LVGL thread in wifi_pwd_connect_cb
          auto,     \* wifi_auto_connect_thread, and the credentials it loaded
          failures, \* fail_count
          radio,    \* the driver: whether it is stuck, its key, the network it was given
          link,     \* the network that is linked: IFF_RUNNING unless "none"
          saved,    \* WIFI_CONFIG_FILE
          selected, \* wifi_selected_ssid
          handle,   \* g_dhcpc_handle, 0 for NULL
          clients,  \* DHCP clients that renew
          visits, scans, connects, drops

wifiVars == <<page, calls, list, scanning, modal, user, auto, failures, radio, link, saved,
              selected, handle, clients, visits, scans, connects, drops>>

Names == Ssids \cup {"none"}
Creds == [ssid : Ssids, pwd : Ssids \cup {"bad"}]
Connecting == {"key", "essid", "wait", "lease", "open"}
NoUser == [pc |-> "idle", ssid |-> "none", pwd |-> "bad"]
AtTop == [pc |-> "top", ssid |-> "none", pwd |-> "bad", known |-> <<>>]

TypeOK ==
    /\ page \in {"menu", "wifi"}
    /\ calls \in BoundedSeq({"result", "error", "deinit"}, MaxScans + 1)
    /\ list \in {"none", "empty", "scanning", "networks", "error", "freed"}
    /\ scanning \in 0..MaxScans
    /\ modal \in Names
    /\ user \in [pc : {"idle", "done"} \cup Connecting, ssid : Names, pwd : Ssids \cup {"bad"}]
    /\ auto \in [pc : {"top", "scan"} \cup Connecting, ssid : Names, pwd : Ssids \cup {"bad"},
                 known : BoundedSeq(Creds, MaxSaved)]
    /\ failures \in 0..FailLimit
    /\ radio \in [stuck : BOOLEAN, key : Ssids \cup {"bad"}, essid : Names]
    /\ link \in Names /\ selected \in Names
    /\ saved \in BoundedSeq(Creds, MaxSaved)
    /\ handle \in 0..3 /\ clients \subseteq 1..3
    /\ visits \in 0..MaxVisits /\ scans \in 0..MaxScans
    /\ connects \in 0..MaxConnects /\ drops \in 0..MaxDrops

Init ==
    /\ page = "menu" /\ calls = <<>> /\ list = "none" /\ scanning = 0 /\ modal = "none"
    /\ user = NoUser /\ auto = AtTop /\ failures = 0
    /\ radio = [stuck |-> FALSE, key |-> "bad", essid |-> "none"] /\ link = "none"
    /\ saved = <<>> /\ selected = "none"
    /\ handle = 0 /\ clients = {}
    /\ visits = 0 /\ scans = 0 /\ connects = 0 /\ drops = 0

pageVars == <<page, calls, list, scanning, modal, visits, scans>>
linkVars == <<radio, link, handle, clients>>

-----------------------------------------------------------------------------
(* The page.  The LVGL thread takes no input while it connects, and none   *)
(* before what it dispatched has run.                                      *)
Input(where) == page = where /\ calls = <<>> /\ user.pc = "idle"

Enter ==
    /\ Input("menu") /\ visits < MaxVisits
    /\ visits' = visits + 1
    /\ page' = "wifi" /\ list' = "empty"
    /\ UNCHANGED <<calls, scanning, modal, user, auto, failures, linkVars, saved, selected, scans,
                   connects, drops>>

(* A swipe is taken over the dialog, too.                                  *)
Leave ==
    /\ Input("wifi")
    /\ scanning > 0 => "leave" \in Faults
    /\ page' = "menu"
    /\ calls' = Append(calls, "deinit")
    /\ UNCHANGED <<list, scanning, modal, user, auto, failures, linkVars, saved, selected, visits,
                   scans, connects, drops>>

Scan ==
    /\ Input("wifi") /\ modal = "none" /\ scans < MaxScans
    /\ scans' = scans + 1 /\ scanning' = scanning + 1
    /\ list' = "scanning"
    /\ UNCHANGED <<page, calls, modal, user, auto, failures, linkVars, saved, selected, visits,
                   connects, drops>>

(* wifi_scan_thread hands what it found, or its error, to the LVGL thread. *)
Scanned ==
    /\ scanning > 0
    /\ scanning' = scanning - 1
    /\ \E answer \in {IF radio.stuck THEN "error" ELSE "result", "error"} :
         calls' = Append(calls, answer)
    /\ UNCHANGED <<page, list, modal, user, auto, failures, linkVars, saved, selected, visits,
                   scans, connects, drops>>

(* wifi_scan_result_dispatch_cb cleans the list, whether it is there or    *)
(* not; wifi_page_deinit.                                                  *)
Drain ==
    /\ calls # <<>> /\ user.pc = "idle"
    /\ calls' = Tail(calls)
    /\ IF Head(calls) = "deinit" THEN list' = "none" /\ modal' = "none"
       ELSE /\ list' = CASE list = "none" -> "freed"
                         [] Head(calls) = "result" -> "networks"
                         [] OTHER -> "error"
            /\ UNCHANGED modal
    /\ UNCHANGED <<page, scanning, user, auto, failures, linkVars, saved, selected, visits, scans,
                   connects, drops>>

ClickAp(s) ==
    /\ Input("wifi") /\ list = "networks" /\ modal = "none"
    /\ modal' = s
    /\ UNCHANGED <<page, calls, list, scanning, user, auto, failures, linkVars, saved, selected,
                   visits, scans, connects, drops>>

(* Cancelled, or too short a password.                                     *)
Cancel ==
    /\ Input("wifi") /\ modal # "none"
    /\ modal' = "none"
    /\ UNCHANGED <<page, calls, list, scanning, user, auto, failures, linkVars, saved, selected,
                   visits, scans, connects, drops>>

Connect(p) ==
    /\ Input("wifi") /\ modal # "none" /\ connects < MaxConnects
    /\ auto.pc \in Connecting => "beside" \in Faults
    /\ connects' = connects + 1
    /\ user' = [pc |-> "key", ssid |-> modal, pwd |-> p]
    /\ UNCHANGED <<pageVars, auto, failures, linkVars, saved, selected, drops>>

-----------------------------------------------------------------------------
(* Connecting, as wifi_do_connect and the thread do it: the driver gets a  *)
(* key, ...                                                                *)
SetKey(p) == radio' = [radio EXCEPT !.key = p] /\ UNCHANGED <<link, handle, clients>>

(* ... a network, which ends the link it has; ...                          *)
SetEssid(s) ==
    radio' = [radio EXCEPT !.essid = s] /\ link' = "none" /\ UNCHANGED <<handle, clients>>

(* ... the thread waits for the link, three seconds at most; ...           *)
CanLink == ~radio.stuck /\ radio.essid # "none" /\ radio.key = radio.essid
GivesUp == link = "none" /\ (CanLink => "slow" \in Faults)

(* ... and wifi_dhcpc_start closes an older client and opens another.      *)
CloseLease == clients' = clients \ {handle} /\ handle' = 0 /\ UNCHANGED <<radio, link>>
OpenLease ==
    /\ \E c \in 1..3 \ clients : handle' = c /\ clients' = clients \cup {c}
    /\ UNCHANGED <<radio, link>>

Stage(pc, s, p) ==
    \/ pc = "key" /\ SetKey(p)
    \/ pc = "essid" /\ SetEssid(s)
    \/ pc = "wait" /\ (link # "none" \/ GivesUp) /\ UNCHANGED linkVars
    \/ pc = "lease" /\ CloseLease
    \/ pc = "open" /\ OpenLease

After(pc, given) ==
    CASE pc = "key" -> "essid" [] pc = "essid" -> "wait" [] pc = "lease" -> "open"
      [] pc = "wait" -> IF link # "none" THEN "lease" ELSE given
      [] pc = "open" -> given

Associate ==
    /\ CanLink /\ link = "none"
    /\ link' = radio.essid
    /\ UNCHANGED <<pageVars, user, auto, failures, radio, handle, clients, saved, selected,
                   connects, drops>>

(* The access point ends the link, or the driver no longer answers.        *)
Drop ==
    /\ drops < MaxDrops
    /\ drops' = drops + 1
    /\ link' = "none"
    /\ \E stuck \in BOOLEAN : radio' = [radio EXCEPT !.stuck = @ \/ stuck, !.essid = "none"]
    /\ UNCHANGED <<pageVars, user, auto, failures, handle, clients, saved, selected, connects>>

-----------------------------------------------------------------------------
(* The LVGL thread.                                                        *)
UserConnects ==
    /\ user.pc \in Connecting
    /\ Stage(user.pc, user.ssid, user.pwd)
    /\ user' = [user EXCEPT !.pc = After(user.pc, "done")]
    /\ UNCHANGED <<pageVars, auto, failures, saved, selected, connects, drops>>

(* wifi_save_config: the newest first, an older password of it forgotten.  *)
SavedFirst(c) ==
    LET others == SelectSeq(saved, LAMBDA x : x.ssid # c.ssid)
    IN <<c>> \o SubSeq(others, 1, IF Len(others) < MaxSaved THEN Len(others) ELSE MaxSaved - 1)

UserDone ==
    /\ user.pc = "done"
    /\ user' = NoUser
    /\ saved' = IF link # "none" THEN SavedFirst([ssid |-> user.ssid, pwd |-> user.pwd]) ELSE saved
    /\ selected' = user.ssid
    /\ modal' = "none"
    /\ UNCHANGED <<page, calls, list, scanning, auto, failures, linkVars, visits, scans, connects,
                   drops>>

-----------------------------------------------------------------------------
(* wifi_auto_connect_thread.  When the link is down the credentials are    *)
(* loaded, and after too many failures the driver is reset; ...            *)
Look ==
    /\ auto.pc = "top" /\ link = "none" /\ saved # <<>>
    /\ auto' = [auto EXCEPT !.pc = "scan", !.known = saved]
    /\ IF failures = FailLimit
       THEN failures' = 0 /\ radio' = [radio EXCEPT !.stuck = FALSE, !.essid = "none"]
       ELSE UNCHANGED <<failures, radio>>
    /\ UNCHANGED <<pageVars, user, link, handle, clients, saved, selected, connects, drops>>

Linked ==
    /\ auto.pc = "top" /\ link # "none"
    /\ failures' = 0
    /\ UNCHANGED <<pageVars, user, auto, linkVars, saved, selected, connects, drops>>

Failed == auto' = AtTop /\ failures' = IF failures < FailLimit THEN failures + 1 ELSE failures

(* ... it scans, and takes a network it knows even if the user connected   *)
(* meanwhile; a driver that is stuck, or scans for the page, finds none;   *)
FindNetwork ==
    /\ auto.pc = "scan"
    /\ \/ /\ radio.stuck \/ scanning > 0
          /\ Failed
       \/ /\ ~radio.stuck
          /\ user.pc = "idle" \/ "beside" \in Faults
          /\ \E i \in DOMAIN auto.known :
               auto' = [auto EXCEPT !.pc = "key", !.ssid = auto.known[i].ssid,
                                    !.pwd = auto.known[i].pwd]
          /\ UNCHANGED failures
    /\ UNCHANGED <<pageVars, user, linkVars, saved, selected, connects, drops>>

(* ... and it connects.                                                    *)
AutoConnects ==
    /\ auto.pc \in Connecting
    /\ Stage(auto.pc, auto.ssid, auto.pwd)
    /\ IF auto.pc = "wait" /\ link = "none" THEN Failed /\ UNCHANGED selected
       ELSE IF auto.pc = "open" THEN auto' = AtTop /\ failures' = 0 /\ selected' = auto.ssid
       ELSE /\ auto' = [auto EXCEPT !.pc = After(auto.pc, "top")]
            /\ UNCHANGED <<failures, selected>>
    /\ UNCHANGED <<pageVars, user, saved, connects, drops>>

Next ==
    \/ Enter \/ Leave \/ Scan \/ Scanned \/ Drain \/ Cancel
    \/ \E s \in Ssids : ClickAp(s) \/ Connect(s)
    \/ Connect("bad") \/ UserConnects \/ UserDone
    \/ Associate \/ Drop
    \/ Look \/ Linked \/ FindNetwork \/ AutoConnects

(* The threads are scheduled, and the radio links if it can.               *)
UserStep == Drain \/ UserConnects \/ UserDone
AutoStep == Look \/ Linked \/ FindNetwork \/ AutoConnects

Spec == /\ Init /\ [][Next]_wifiVars
        /\ WF_wifiVars(UserStep) /\ WF_wifiVars(AutoStep)
        /\ WF_wifiVars(Scanned) /\ WF_wifiVars(Associate)

-----------------------------------------------------------------------------
Resting == user.pc = "idle" /\ auto.pc \in {"top", "scan"}

(* A password that is saved is the one that the network took, a network is *)
(* saved once, and the page names the network that is linked.              *)
SavedWorks == /\ \A i \in DOMAIN saved : saved[i].pwd = saved[i].ssid
              /\ \A i, j \in DOMAIN saved : saved[i].ssid = saved[j].ssid => i = j
ShownIsLinked == Resting /\ link # "none" => selected = link

(* One client renews the lease, the one that the handle names, and a link  *)
(* has one: without it nobody would ask for an address again.              *)
OneRenewal == /\ clients \subseteq {handle} /\ (handle # 0 => handle \in clients)
              /\ Resting /\ link # "none" => handle # 0

(* A scan ends before the list that it fills is gone.                      *)
ListAlive == list # "freed"

(* A board that knows a network is linked again, whatever the user tried   *)
(* and even if the driver was stuck.                                       *)
Waiting == user.pc # "idle" \/ (link = "none" /\ saved # <<>>)
LinkComesBack == Waiting ~> ~Waiting
=============================================================================
