--------------------------- MODULE RecorderPlayer ---------------------------
(***************************************************************************)
(* The recorder page and the player page, which share the audio pipeline:  *)
(* the LVGL thread records, lists, deletes and plays files, a timer scans  *)
(* the directory after a recording, and the media server's thread reports  *)
(* on the player and opens the recorder again.                             *)
(*   - lvgldemo/recorder_page.c, player_page.c, lvgl_dispatch.c            *)
(* A file is the number of its recording: names are times, so their order  *)
(* is that of the numbers.  Screens change in one step; input comes when   *)
(* what the change dispatched has run.                                     *)
(***************************************************************************)
EXTENDS Naturals, Sequences, FiniteSets

CONSTANTS MaxFiles,  \* recordings
          MaxListed, \* RECORDER_MAX_FILES
          MaxVisits, \* times the recorder page is entered from the menu
          MaxPlays,  \* files played
          Faults     \* of "quick", "hurry", "prepare", "event", "ended", "busy"

VARIABLES page,      \* the active screen
          calls,     \* what lvgl_dispatch_async was given
          held,      \* the state of recorder_handle, "none" for NULL
          lost,      \* captures that are open and that no handle names
          recording, \* recorder_state
          path,      \* recorder_path
          disk,      \* the files of the directory
          listed,    \* recorder_files, the newest first
          scan,      \* recorder_scan_timer
          press,     \* recorder_long_press_pending_idx, 0 for -1
          finger,    \* the button pressed is still there
          dialog,    \* recorder_delete_pending_idx and the name that the dialog shows
          removed,   \* the names shown and deleted
          player,    \* the state of player_handle
          going,     \* the file that the LVGL thread is about to play
          playing,   \* player_state
          visits, plays

recorderVars == <<page, calls, held, lost, recording, path, disk, listed, scan, press, finger,
                  dialog, removed, player, going, playing, visits, plays>>

Files == 1..MaxFiles
Nobody == [index |-> 0, name |-> 0]

TypeOK ==
    /\ page \in {"menu", "recorder", "player"}
    /\ calls \in Seq({"open", "leave", "quit"}) /\ Len(calls) <= 4
    /\ held \in {"none", "open", "recording", "stopped"}
    /\ lost \subseteq {"open", "recording", "stopped"}
    /\ recording \in BOOLEAN
    /\ path \in 0..MaxFiles /\ disk \subseteq Files
    /\ listed \in Seq(Files) /\ Len(listed) <= MaxListed
    /\ scan \in BOOLEAN
    /\ press \in 0..MaxListed /\ finger \in BOOLEAN
    /\ dialog \in [index : 0..MaxListed, name : 0..MaxFiles]
    /\ removed \subseteq Files \X Files
    /\ player \in {"none", "open", "prepared", "started", "paused", "done"}
    /\ going \in 0..MaxFiles
    /\ playing \in {"idle", "playing", "paused"}
    /\ visits \in 0..MaxVisits /\ plays \in 0..MaxPlays

Init ==
    /\ page = "menu" /\ calls = <<>>
    /\ held = "none" /\ lost = {} /\ recording = FALSE /\ path = 0
    /\ disk = {} /\ listed = <<>> /\ scan = FALSE
    /\ press = 0 /\ finger = FALSE /\ dialog = Nobody /\ removed = {}
    /\ player = "none" /\ going = 0 /\ playing = "idle"
    /\ visits = 0 /\ plays = 0

fileVars == <<disk, listed, press, finger, dialog, removed>>
playerVars == <<player, going, playing, plays>>

-----------------------------------------------------------------------------
(* recorder_open overwrites the handle, whatever it held.                  *)
Opened ==
    /\ held' = "open"
    /\ lost' = IF held = "none" THEN lost ELSE lost \cup {held}

Listed(files) ==
    LET Newer(f) == {g \in files : f < g}
        count == IF Cardinality(files) < MaxListed THEN Cardinality(files) ELSE MaxListed
    IN [i \in 1..count |-> CHOOSE f \in files : Cardinality(Newer(f)) = i - 1]

(* recorder_scan_files deletes the buttons: a finger on one is not told of *)
(* its release, and the timer of a long press goes on.                     *)
Scanned(files) == listed' = Listed(files) /\ finger' = FALSE

(* Input comes to a page when no dialog covers it, from one finger.        *)
Shown(where) == page = where /\ calls = <<>> /\ going = 0 /\ dialog = Nobody
Input(where) == Shown(where) /\ ~finger

-----------------------------------------------------------------------------
(* From page to page.  A page that was loaded and one that was unloaded    *)
(* dispatch what they do then, in that order.                              *)
Enter ==
    /\ Input("menu") /\ visits < MaxVisits
    /\ page' = "recorder" /\ calls' = Append(calls, "open")
    /\ visits' = visits + 1
    /\ UNCHANGED <<held, lost, recording, path, fileVars, scan, playerVars>>

Swipe ==
    /\ \/ Shown("recorder") /\ calls' = Append(calls, "leave")
       \/ Shown("player") /\ calls' = Append(calls, "quit")
    /\ page' = "menu"
    /\ UNCHANGED <<held, lost, recording, path, fileVars, scan, playerVars, visits>>

(* recorder_file_click_cb: the player is opened before its page is loaded. *)
ClickFile ==
    /\ Input("recorder") /\ listed # <<>>
    /\ press' = 0 /\ finger' = FALSE
    /\ player' = "open"
    /\ page' = "player" /\ calls' = Append(calls, "leave")
    /\ UNCHANGED <<held, lost, recording, path, disk, listed, scan, dialog, removed, going, playing,
                   visits, plays>>

Back ==
    /\ Input("player")
    /\ page' = "recorder" /\ calls' = calls \o <<"open", "quit">>
    /\ UNCHANGED <<held, lost, recording, path, fileVars, scan, playerVars, visits>>

(* recorder_loaded_async_cb and recorder_page_deinit.                      *)
Loaded ==
    /\ Opened
    /\ Scanned(disk)
    /\ UNCHANGED <<recording, path, disk, scan, press, dialog, removed, playerVars>>

Deinit ==
    /\ held' = "none" /\ recording' = FALSE
    /\ scan' = FALSE /\ listed' = <<>>
    /\ press' = 0 /\ finger' = FALSE /\ dialog' = Nobody
    /\ UNCHANGED <<lost, path, disk, removed, playerVars>>

(* player_page_deinit closes the player 50 ms after it was told to stop,   *)
(* so that the media thread is told of the stop and opens the recorder.    *)
Sounding == player \in {"started", "paused"}
PlayerDeinit ==
    /\ player' = "none" /\ playing' = "idle"
    /\ IF Sounding THEN Opened ELSE UNCHANGED <<held, lost>>
    /\ UNCHANGED <<recording, path, fileVars, scan, going, plays>>

(* lvgl_dispatch_drain.                                                    *)
Drain ==
    /\ calls # <<>> /\ going = 0
    /\ calls' = Tail(calls)
    /\ CASE Head(calls) = "open" -> Loaded
         [] Head(calls) = "leave" -> Deinit
         [] Head(calls) = "quit" -> PlayerDeinit
    /\ UNCHANGED <<page, visits>>

-----------------------------------------------------------------------------
(* Recording.  What prepare and start return is ignored.                   *)
Start ==
    /\ Input("recorder") /\ ~recording /\ path < MaxFiles
    /\ scan => "quick" \in Faults
    /\ path' = path + 1 /\ recording' = TRUE
    /\ \/ /\ held \in {"open", "stopped"}
          /\ held' = "recording" /\ disk' = disk \cup {path + 1}
       \/ /\ held = "none" \/ "prepare" \in Faults
          /\ UNCHANGED <<held, disk>>
    /\ UNCHANGED <<page, calls, lost, listed, scan, press, finger, dialog, removed, playerVars,
                   visits>>

Stop ==
    /\ Input("recorder") /\ recording
    /\ recording' = FALSE
    /\ held' = IF held = "recording" THEN "stopped" ELSE held
    /\ scan' = TRUE
    /\ UNCHANGED <<page, calls, lost, path, fileVars, playerVars, visits>>

(* recorder_scan_timer_cb closes the capture, so that the file is written, *)
(* and opens another.                                                      *)
ScanTimer ==
    /\ scan /\ calls = <<>>
    /\ held' = "open" /\ scan' = FALSE
    /\ Scanned(disk)
    /\ UNCHANGED <<page, calls, lost, recording, path, disk, press, dialog, removed, playerVars,
                   visits>>

-----------------------------------------------------------------------------
(* A file is pressed for three seconds to delete it.                       *)
Press ==
    /\ Input("recorder")
    /\ \E i \in DOMAIN listed : press' = i
    /\ finger' = TRUE
    /\ UNCHANGED <<page, calls, held, lost, recording, path, disk, listed, scan, dialog, removed,
                   playerVars, visits>>

Release ==
    /\ finger
    /\ finger' = FALSE
    /\ press' = 0
    /\ UNCHANGED <<page, calls, held, lost, recording, path, disk, listed, scan, dialog, removed,
                   playerVars, visits>>

(* The scan comes 1.5 s after a stop, before the end of a press that began *)
(* by then; only one whose button was deleted may end before a later scan, *)
(* or, as one that begins later, while another recording goes on.          *)
LongPress ==
    /\ press # 0 /\ page = "recorder" /\ calls = <<>>
    /\ scan => "hurry" \in Faults
    /\ recording => "busy" \in Faults
    /\ press' = 0
    /\ dialog' = IF press <= Len(listed) THEN [index |-> press, name |-> listed[press]]
                 ELSE dialog
    /\ UNCHANGED <<page, calls, held, lost, recording, path, disk, listed, scan, finger, removed,
                   playerVars, visits>>

Cancel ==
    /\ dialog # Nobody
    /\ dialog' = Nobody
    /\ UNCHANGED <<page, calls, held, lost, recording, path, disk, listed, scan, press, finger,
                   removed, playerVars, visits>>

Confirm ==
    /\ dialog # Nobody
    /\ dialog' = Nobody
    /\ IF dialog.index <= Len(listed)
       THEN LET gone == listed[dialog.index]
            IN /\ disk' = disk \ {gone}
               /\ removed' = removed \cup {<<dialog.name, gone>>}
               /\ Scanned(disk \ {gone})
       ELSE UNCHANGED <<disk, removed, listed, finger>>
    /\ UNCHANGED <<page, calls, held, lost, recording, path, scan, press, playerVars, visits>>

-----------------------------------------------------------------------------
(* Playing.  player_play_file closes the recorder and tells an older       *)
(* player to stop, ...                                                     *)
Play ==
    /\ Input("player") /\ plays < MaxPlays
    /\ \E f \in disk : going' = f
    /\ plays' = plays + 1
    /\ held' = "none"
    /\ UNCHANGED <<page, calls, lost, recording, path, fileVars, scan, player, playing, visits>>

(* ... closes it, and opens and prepares a new one.  When the media thread *)
(* hears of the stop before the close it opens the recorder, as the LVGL   *)
(* thread does when it cannot prepare.                                     *)
Prepare ==
    /\ going # 0
    /\ going' = 0
    /\ \/ player' = "prepared" /\ UNCHANGED <<held, lost, playing>>
       \/ "event" \in Faults /\ Sounding /\ player' = "prepared" /\ playing' = "idle" /\ Opened
       \/ "prepare" \in Faults /\ player' = "open" /\ UNCHANGED playing /\ Opened
    /\ UNCHANGED <<page, calls, recording, path, fileVars, scan, visits, plays>>

(* player_on_event on the media thread: the player starts when it is       *)
(* prepared, and at the end of the file the recorder is opened.            *)
Started ==
    /\ player = "prepared" /\ going = 0
    /\ player' = "started" /\ playing' = "playing"
    /\ UNCHANGED <<page, calls, held, lost, recording, path, fileVars, scan, going, visits, plays>>

Completed ==
    /\ player = "started" /\ going = 0 /\ "ended" \in Faults
    /\ player' = "done" /\ playing' = "idle"
    /\ Opened
    /\ UNCHANGED <<page, calls, recording, path, fileVars, scan, going, visits, plays>>

(* player_play_btn_cb; another press of the button plays the file again.   *)
PauseOrResume ==
    /\ Input("player")
    /\ \/ playing = "playing" /\ player = "started" /\ player' = "paused" /\ playing' = "paused"
       \/ playing = "paused" /\ player = "paused" /\ player' = "started" /\ playing' = "playing"
    /\ UNCHANGED <<page, calls, held, lost, recording, path, fileVars, scan, going, visits, plays>>

Next ==
    \/ Enter \/ Swipe \/ ClickFile \/ Back \/ Drain
    \/ Start \/ Stop \/ ScanTimer
    \/ Press \/ Release \/ LongPress \/ Cancel \/ Confirm
    \/ Play \/ Prepare \/ Started \/ Completed \/ PauseOrResume

(* The LVGL thread drains its queue and finishes what it began.            *)
UiStep == Drain \/ Prepare \/ ScanTimer

Spec == Init /\ [][Next]_recorderVars /\ WF_recorderVars(UiStep)

-----------------------------------------------------------------------------
(* The page says that it records exactly when its capture does, and no     *)
(* capture that records is forgotten.                                      *)
RecordingHeld == (recording <=> held = "recording") /\ "recording" \notin lost

(* Nothing plays while a capture holds the pipeline that both share.       *)
PipelineFree == player \in {"prepared", "started", "paused"} /\ page = "player" /\ calls = <<>>
                   => held = "none"

(* What is deleted is what the dialog showed, and what is listed is not    *)
(* being recorded.                                                         *)
DeletesShown == \A r \in removed : r[1] = r[2]
ListedIsWhole == recording => \A i \in 1..Len(listed) : listed[i] /= path

(* Who leaves the pages leaves no player and no recording.                 *)
Waiting == page = "menu" /\ (player # "none" \/ recording \/ calls # <<>>)
PagesLeft == Waiting ~> ~Waiting
=============================================================================
