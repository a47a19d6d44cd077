---------------------------- MODULE PhotoDocument ----------------------------
(***************************************************************************)
(* Where the conversation about a photo is written: every visit of the     *)
(* camera page creates a Feishu document in a thread of its own            *)
(* (camera_feishu_doc.c), the answers to a photo are appended to the       *)
(* active document, one detached thread for each (voice_assistant.c), or   *)
(* else forwarded to a chat.  A document is the number of the visit that   *)
(* created it; the user may also ask the agent for one, Spoken.            *)
(***************************************************************************)
EXTENDS Naturals, FiniteSets

CONSTANTS
    MaxVisits, MaxPhotos,   \* bounds on the visits of the page and the photos analysed
    MaxReplies,             \* FEISHU_FWD_MAX_AI_REPLIES
    Spoken                  \* the document the user asks for: any number above 2 * MaxVisits

VARIABLES
    visiting, gen, threads,  \* is the page open? s_generation; the state of each creating thread
    active, silent, skip,    \* s_active_feishu_doc_id, s_doc_create_silent, s_need_skip_doc_prefix
    photo, started, round,   \* the photo queued last, s_fwd_img_analysis_started, s_fwd_ai_count
    chat, upload,            \* s_fwd_enabled; the upload that ends by enabling it
    pending, written, total  \* the appending threads; what was handed to them, and how often

docVars == <<visiting, gen, threads, active, silent>>
replyVars == <<photo, started, round, chat, upload, pending, written, total>>
vars == <<docVars, skip, replyVars>>

Gens == 1..(2 * MaxVisits)

Init ==
    /\ visiting = FALSE /\ gen = 0 /\ threads = [g \in Gens |-> "none"]
    /\ active = 0 /\ silent = FALSE /\ skip = FALSE
    /\ photo = 0 /\ started = FALSE /\ round = 0 /\ chat = FALSE /\ upload = FALSE
    /\ pending = {} /\ written = {} /\ total = 0

(* voice_assistant_set_active_feishu_doc, which makes the next answer lose *)
(* its first words, and its silent variant.                                *)
SetActive(doc) == active' = doc /\ skip' = (doc # 0)
SetActiveSilent(doc) == active' = doc /\ UNCHANGED skip
Created(doc) == IF silent THEN SetActiveSilent(doc) ELSE SetActive(doc)

----------------------------------------------------------------------------
(* camera_feishu_doc_create_async, on entering the page from the menu, and *)
(* camera_feishu_doc_cancel, on leaving it.                                *)
Enter ==
    /\ ~visiting /\ gen + 2 <= 2 * MaxVisits
    /\ visiting' = TRUE /\ gen' = gen + 1
    /\ threads' = [threads EXCEPT ![gen'] = "start"]
    /\ UNCHANGED <<active, silent, skip, replyVars>>
Leave ==
    /\ visiting /\ visiting' = FALSE /\ gen' = gen + 1
    /\ SetActive(0) /\ chat' = FALSE
    /\ UNCHANGED <<threads, silent, photo, started, round, upload, pending, written, total>>

(* cam_feishu_doc_thread: the flag that is set during the creation is      *)
(* shared by all threads; a thread that was cancelled meanwhile clears     *)
(* what its callback has set.                                              *)
Step(g, from, to) == threads[g] = from /\ threads' = [threads EXCEPT ![g] = to]
Start(g) ==
    Step(g, "start", "create") /\ silent' = TRUE /\ UNCHANGED <<active, skip>>
Create(g) ==
    /\ Step(g, "create", "created")
    /\ Created(g) \/ UNCHANGED <<active, skip>>       \* the request may fail
    /\ UNCHANGED silent
Finish_Mut(g) ==   \* without a second look at the generation
    Step(g, "created", "done") /\ silent' = FALSE /\ UNCHANGED <<active, skip>>
Finish(g) ==
    /\ Step(g, "created", "done")
    /\ silent' = FALSE
    /\ IF gen # g THEN SetActive(0) ELSE UNCHANGED <<active, skip>>
DocStep(g) == (Start(g) \/ Create(g) \/ Finish(g)) /\ UNCHANGED <<visiting, gen, replyVars>>

(* In the dialogue about a photo the user may ask for a document as well.  *)
Ask == /\ visiting /\ photo # 0 /\ Created(Spoken)
       /\ UNCHANGED <<visiting, gen, threads, silent, replyVars>>

----------------------------------------------------------------------------
(* A photo is queued (voice_assistant_analyze_image).  With a document     *)
(* active it is not forwarded; otherwise the photo is uploaded to the      *)
(* chat, which then gets the answers (voice_assistant_set_feishu_forward). *)
Queue ==
    /\ visiting /\ photo < MaxPhotos
    /\ photo' = photo + 1 /\ started' = TRUE /\ round' = 0
    /\ IF active # 0 THEN chat' = FALSE /\ UNCHANGED upload ELSE upload' = TRUE /\ UNCHANGED chat
    /\ UNCHANGED <<docVars, skip, pending, written, total>>
Uploaded ==
    /\ upload /\ upload' = FALSE
    /\ \/ chat' = TRUE /\ started' = FALSE /\ round' = 0 /\ skip' = FALSE
       \/ UNCHANGED <<chat, started, round, skip>>
    /\ UNCHANGED <<docVars, photo, pending, written, total>>

(* An answer (response.audio_transcript.done): counted and handed to a     *)
(* thread of its own when a document is active.                            *)
Reply ==
    /\ skip' = FALSE
    /\ IF started /\ active # 0
       THEN LET block == [doc |-> active, photo |-> photo, round |-> round + 1]
            IN /\ round' = round + 1 /\ started' = (round' < MaxReplies)
               /\ pending' = pending \cup {block} /\ written' = written \cup {block}
               /\ total' = total + 1
       ELSE UNCHANGED <<round, started, pending, written, total>>
    /\ UNCHANGED <<docVars, photo, chat, upload>>

(* feishu_doc_write_thread: the last answer ends the round, again.         *)
Write(block) ==
    /\ pending' = pending \ {block}
    /\ started' = (started /\ block.round < MaxReplies)
    /\ UNCHANGED <<docVars, skip, photo, round, chat, upload, written, total>>

Next == \/ Enter \/ Leave \/ Ask \/ Queue \/ Uploaded \/ Reply
        \/ \E g \in Gens : DocStep(g)
        \/ \E block \in pending : Write(block)

----------------------------------------------------------------------------
TypeOK ==
    /\ {visiting, silent, skip, started, chat, upload} \subseteq BOOLEAN
    /\ gen \in 0..(2 * MaxVisits) /\ active \in Gens \cup {0, Spoken}
    /\ threads \in [Gens -> {"none", "start", "create", "created", "done"}]
    /\ photo \in 0..MaxPhotos /\ round \in 0..MaxReplies /\ total \in Nat
    /\ pending \subseteq written

(* The active document belongs to the visit that is on, and outside a      *)
(* visit none is active, but for the moment between a creation and its     *)
(* thread's look at the generation.                                        *)
DocOfThisVisit ==
    (\A g \in Gens : threads[g] # "created") => active \in {0} \cup (IF visiting THEN {gen, Spoken} ELSE {})

(* An answer is written once: the counter is not started again for a photo *)
(* whose first answers were written already, and at most MaxReplies of     *)
(* them are.                                                               *)
RoundsOnce ==
    /\ Cardinality(written) = total
    /\ \A block \in written : block.round \in 1..MaxReplies
=============================================================================
