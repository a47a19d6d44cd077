---------------------------- MODULE SessionStore ----------------------------
(***************************************************************************)
(* The session histories of core/session_mgr.c: one file of lines for each *)
(* chat, appended to and from time to time truncated under s_session_lock, *)
(* while the shell's session_clear removes files without the lock and the  *)
(* power may fail.  A missing file and an empty one are the same here.     *)
(***************************************************************************)
EXTENDS Naturals, Sequences

CONSTANTS Chats,
          TruncateEvery,  \* 10: appends between two truncations, over all chats
          KeepLines,      \* AGENT_SESSION_MAX_MSGS * 2
          MaxLines,       \* bound on the lines ever appended
          MaxBoots        \* bound on power failures

VARIABLES files, tmp,   \* the lines of tg_<chat>.jsonl and of its .tmp
          lines,        \* lines appended so far, numbered from 1
          log,          \* log[c]: the lines appended to c, in order
          cleared,      \* chats the shell has cleared
          appends,      \* s_append_count
          pc, chat,     \* session_append in its call of session_truncate
          boots

vars == <<files, tmp, lines, log, cleared, appends, pc, chat, boots>>

Last(s, n) == SubSeq(s, Len(s) - n + 1, Len(s))
IsSuffix(s, t) == Len(s) <= Len(t) /\ s = Last(t, Len(s))

Init ==
  /\ files = [c \in Chats |-> <<>>] /\ tmp = files /\ log = files
  /\ lines = 0 /\ cleared = {} /\ appends = 0 /\ boots = 0
  /\ pc = "unlocked" /\ chat \in Chats

-----------------------------------------------------------------------------
(* session_append writes one line; every so many calls it goes on to        *)
(* truncate the file of the chat it was called for.                         *)
AppendLine(c) ==
  /\ pc = "unlocked" /\ lines < MaxLines
  /\ lines' = lines + 1
  /\ files' = [files EXCEPT ![c] = Append(@, lines')]
  /\ log' = [log EXCEPT ![c] = Append(@, lines')]
  /\ chat' = c
  /\ IF appends + 1 >= TruncateEvery
     THEN appends' = 0 /\ pc' = "truncate"
     ELSE appends' = appends + 1 /\ UNCHANGED pc
  /\ UNCHANGED <<tmp, cleared, boots>>

KeptFirst_Mut(s) == SubSeq(s, 1, KeepLines)

Kept(s) == Last(s, KeepLines)

(* session_truncate counts the lines and copies those to keep; a short file *)
(* needs nothing, and without a temporary file nothing is done.             *)
CopyKept ==
  /\ pc = "truncate"
  /\ \/ /\ Len(files[chat]) > KeepLines
        /\ tmp' = [tmp EXCEPT ![chat] = Kept(files[chat])]
        /\ pc' = "copied"
     \/ UNCHANGED tmp /\ pc' = "unlocked"
  /\ UNCHANGED <<files, lines, log, cleared, appends, chat, boots>>

(* remove(path) ... *)
RemoveOld ==
  /\ pc = "copied"
  /\ files' = [files EXCEPT ![chat] = <<>>]
  /\ pc' = "removed"
  /\ UNCHANGED <<tmp, lines, log, cleared, appends, chat, boots>>

(* ... and rename(tmp_path, path) *)
RenameNew ==
  /\ pc = "removed"
  /\ files' = [files EXCEPT ![chat] = tmp[chat]]
  /\ tmp' = [tmp EXCEPT ![chat] = <<>>]
  /\ pc' = "unlocked"
  /\ UNCHANGED <<lines, log, cleared, appends, chat, boots>>

(* session_clear and session_clear_all, which take no lock *)
Clear(chats) ==
  /\ files' = [c \in Chats |-> IF c \in chats THEN <<>> ELSE files[c]]
  /\ cleared' = cleared \cup chats
  /\ UNCHANGED <<tmp, lines, log, appends, pc, chat, boots>>

(* A restart finds what is on flash and forgets the rest *)
Boot ==
  /\ boots < MaxBoots
  /\ boots' = boots + 1
  /\ appends' = 0 /\ pc' = "unlocked"
  /\ UNCHANGED <<files, tmp, lines, log, cleared, chat>>

Next == \/ \E c \in Chats : AppendLine(c) \/ Clear({c})
        \/ Clear(Chats)
        \/ CopyKept \/ RemoveOld \/ RenameNew \/ Boot

(* session_get_history_json: the newest lines, in order *)
History(c, max) == IF Len(files[c]) < max THEN files[c] ELSE Last(files[c], max)

-----------------------------------------------------------------------------
TypeOK ==
  /\ files \in [Chats -> Seq(1 .. MaxLines)] /\ tmp \in [Chats -> Seq(1 .. MaxLines)]
  /\ log \in [Chats -> Seq(1 .. MaxLines)] /\ lines \in 0 .. MaxLines
  /\ cleared \subseteq Chats /\ appends \in 0 .. TruncateEvery - 1
  /\ pc \in {"unlocked", "truncate", "copied", "removed"} /\ chat \in Chats

(* What the model is shown of a conversation is its latest part, without    *)
(* gaps and in order, whatever was truncated, cleared or cut short by a     *)
(* power failure before.                                                    *)
HistoryIsRecent ==
  \A c \in Chats, max \in 1 .. KeepLines : IsSuffix(History(c, max), log[c])
=============================================================================
