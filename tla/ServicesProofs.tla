--------------------------- MODULE ServicesProofs ---------------------------
(***************************************************************************)
(* Proofs about the way of a request through the agent and about the       *)
(* session files, as they are composed in MCServices, for any values of    *)
(* their constants.                                                        *)
(***************************************************************************)
EXTENDS MCServices, SequenceTheorems, TLAPS

-----------------------------------------------------------------------------
(* The session files.  Suffixes, element by element.                        *)
LEMMA SuffixIs ==
  ASSUME NEW E, NEW s \in Seq(E), NEW t \in Seq(E)
  PROVE  S!IsSuffix(s, t) <=>
           /\ Len(s) <= Len(t)
           /\ \A k \in 1 .. Len(s) : s[k] = t[Len(t) - Len(s) + k]
  <1> SUFFICES ASSUME Len(s) <= Len(t)
               PROVE  s = S!Last(t, Len(s)) <=>
                        \A k \in 1 .. Len(s) : s[k] = t[Len(t) - Len(s) + k]
    BY DEF S!IsSuffix
  <1> DEFINE n == Len(s)
             u == S!Last(t, n)
  <1>1. n \in Nat /\ Len(t) \in Nat
    BY LenProperties
  <1>2. u = SubSeq(t, Len(t) - n + 1, Len(t))
    BY DEF S!Last
  <1>3. /\ u \in Seq(E) /\ Len(u) = n
        /\ \A k \in 1 .. n : u[k] = t[Len(t) - n + k]
    <2>1. Len(t) - n + 1 \in 1 .. Len(t) + 1
      BY <1>1
    <2>2. CASE n = 0
      BY <1>1, <1>2, <2>2
    <2>3. CASE n # 0
      BY <1>1, <1>2, <2>1, <2>3, SubSeqProperties
    <2> QED
      BY <2>2, <2>3
  <1> HIDE DEF u
  <1>4. s = u <=> \A k \in 1 .. n : s[k] = u[k]
    BY <1>3, SeqEqual
  <1> QED
    BY <1>3, <1>4 DEF u

LEMMA EmptyIsSuffix == ASSUME NEW E, NEW t \in Seq(E) PROVE S!IsSuffix(<<>>, t)
  <1>1. <<>> \in Seq(E) /\ Len(<<>>) = 0 /\ Len(t) \in Nat
    BY LenProperties
  <1>2. /\ Len(<<>>) <= Len(t)
        /\ \A k \in 1 .. Len(<<>>) : <<>>[k] = t[Len(t) - Len(<<>>) + k]
    BY <1>1
  <1> QED
    BY <1>1, <1>2, SuffixIs

(* A line appended to both keeps one the suffix of the other.               *)
LEMMA AppendToSuffix ==
  ASSUME NEW E, NEW s \in Seq(E), NEW t \in Seq(E), NEW x \in E, S!IsSuffix(s, t)
  PROVE  S!IsSuffix(Append(s, x), Append(t, x))
  <1> DEFINE s1 == Append(s, x)
             t1 == Append(t, x)
  <1>1. /\ s1 \in Seq(E) /\ Len(s1) = Len(s) + 1 /\ s1[Len(s) + 1] = x
        /\ \A k \in 1 .. Len(s) : s1[k] = s[k]
    BY AppendProperties
  <1>2. /\ t1 \in Seq(E) /\ Len(t1) = Len(t) + 1 /\ t1[Len(t) + 1] = x
        /\ \A k \in 1 .. Len(t) : t1[k] = t[k]
    BY AppendProperties
  <1>3. /\ Len(s) \in Nat /\ Len(t) \in Nat /\ Len(s) <= Len(t)
        /\ \A k \in 1 .. Len(s) : s[k] = t[Len(t) - Len(s) + k]
    BY SuffixIs, LenProperties
  <1> HIDE DEF s1, t1
  <1>4. ASSUME NEW k \in 1 .. Len(s1) PROVE s1[k] = t1[Len(t1) - Len(s1) + k]
    <2>1. CASE k = Len(s) + 1
      BY <1>1, <1>2, <1>3, <2>1
    <2>2. CASE k # Len(s) + 1
      <3>1. k \in 1 .. Len(s) /\ Len(t) - Len(s) + k \in 1 .. Len(t)
        BY <1>1, <1>3, <2>2
      <3>2. Len(t1) - Len(s1) + k = Len(t) - Len(s) + k
        BY <1>1, <1>2, <1>3, <3>1
      <3> QED
        BY <1>1, <1>2, <1>3, <3>1, <3>2
    <2> QED
      BY <2>1, <2>2
  <1>5. Len(s1) <= Len(t1)
    BY <1>1, <1>2, <1>3
  <1>6. S!IsSuffix(s1, t1)
    BY <1>1, <1>2, <1>4, <1>5, SuffixIs
  <1> QED
    BY <1>6 DEF s1, t1

(* The last lines of a suffix are a suffix.                                 *)
LEMMA LastOfSuffix ==
  ASSUME NEW E, NEW s \in Seq(E), NEW t \in Seq(E), S!IsSuffix(s, t),
         NEW n \in Nat, n <= Len(s)
  PROVE  S!Last(s, n) \in Seq(E) /\ S!IsSuffix(S!Last(s, n), t)
  <1> DEFINE u == S!Last(s, n)
  <1>1. /\ Len(s) \in Nat /\ Len(t) \in Nat /\ Len(s) <= Len(t)
        /\ \A k \in 1 .. Len(s) : s[k] = t[Len(t) - Len(s) + k]
    BY SuffixIs, LenProperties
  <1>2. u = SubSeq(s, Len(s) - n + 1, Len(s))
    BY DEF S!Last
  <1>3. /\ u \in Seq(E) /\ Len(u) = n
        /\ \A k \in 1 .. n : u[k] = s[Len(s) - n + k]
    <2>1. Len(s) - n + 1 \in 1 .. Len(s) + 1
      BY <1>1
    <2>2. CASE n = 0
      BY <1>1, <1>2, <2>2
    <2>3. CASE n # 0
      BY <1>1, <1>2, <2>1, <2>3, SubSeqProperties
    <2> QED
      BY <2>2, <2>3
  <1> HIDE DEF u
  <1>4. ASSUME NEW k \in 1 .. n PROVE u[k] = t[Len(t) - n + k]
    <2>1. Len(s) - n + k \in 1 .. Len(s)
      BY <1>1
    <2>2. Len(t) - Len(s) + (Len(s) - n + k) = Len(t) - n + k
      BY <1>1
    <2> QED
      BY <1>1, <1>3, <2>1, <2>2
  <1>5. Len(u) <= Len(t) /\ \A k \in 1 .. Len(u) : u[k] = t[Len(t) - Len(u) + k]
    BY <1>1, <1>3, <1>4
  <1>6. S!IsSuffix(u, t)
    BY <1>3, <1>5, SuffixIs
  <1> QED
    BY <1>3, <1>6 DEF u

(* Each file holds the latest lines of its log, and so does the temporary   *)
(* file that is about to replace one.                                       *)
Lines == 1 .. MaxLines
SessionInv ==
  /\ S!TypeOK
  /\ \A c \in Chats : S!IsSuffix(files[c], log[c])
  /\ spc \in {"copied", "removed"} => S!IsSuffix(tmp[chat], log[chat])

LEMMA InitSession == S!Init => SessionInv
  <1> SUFFICES ASSUME S!Init PROVE SessionInv
    OBVIOUS
  <1>1. <<>> \in Seq(Lines)
    OBVIOUS
  <1>2. /\ files \in [Chats -> Seq(Lines)] /\ tmp = files /\ log = files
        /\ \A c \in Chats : files[c] = <<>>
    BY <1>1 DEF S!Init
  <1>3. S!TypeOK
    BY <1>2, SessionAssumption DEF S!Init, S!TypeOK, Lines
  <1>4. \A c \in Chats : S!IsSuffix(files[c], log[c])
    BY <1>1, <1>2, EmptyIsSuffix
  <1>5. spc = "unlocked"
    BY DEF S!Init
  <1> QED
    BY <1>3, <1>4, <1>5 DEF SessionInv

LEMMA SessionStepKeeps == SessionInv /\ [S!Next]_(S!vars) => SessionInv'
  <1> SUFFICES ASSUME SessionInv, [S!Next]_(S!vars) PROVE SessionInv'
    OBVIOUS
  <1>1. /\ files \in [Chats -> Seq(Lines)] /\ tmp \in [Chats -> Seq(Lines)]
        /\ log \in [Chats -> Seq(Lines)] /\ lines \in 0 .. MaxLines
        /\ cleared \subseteq Chats /\ appends \in 0 .. TruncateEvery - 1
        /\ spc \in {"unlocked", "truncate", "copied", "removed"} /\ chat \in Chats
        /\ \A c \in Chats : S!IsSuffix(files[c], log[c])
        /\ spc \in {"copied", "removed"} => S!IsSuffix(tmp[chat], log[chat])
    BY DEF SessionInv, S!TypeOK, Lines
  <1>2. MaxLines \in Nat /\ KeepLines \in Nat /\ TruncateEvery \in Nat /\ TruncateEvery > 0
    BY SessionAssumption
  <1>3. <<>> \in Seq(Lines) /\ \A c \in Chats : S!IsSuffix(<<>>, log[c])
    BY <1>1, EmptyIsSuffix
  <1>4. ASSUME NEW c \in Chats, S!AppendLine(c) PROVE SessionInv'
    <2> DEFINE x == lines + 1
    <2>1. /\ spc = "unlocked" /\ x \in Lines /\ lines' = x
          /\ files' = [files EXCEPT ![c] = Append(files[c], x)]
          /\ log' = [log EXCEPT ![c] = Append(log[c], x)]
          /\ chat' = c /\ UNCHANGED <<tmp, cleared, sboots>>
      BY <1>1, <1>2, <1>4 DEF S!AppendLine, Lines
    <2>2. appends' \in 0 .. TruncateEvery - 1 /\ spc' \in {"unlocked", "truncate"}
      BY <1>1, <1>2, <1>4 DEF S!AppendLine
    <2> HIDE DEF x
    <2>3. /\ Append(files[c], x) \in Seq(Lines) /\ Append(log[c], x) \in Seq(Lines)
          /\ S!IsSuffix(Append(files[c], x), Append(log[c], x))
      BY <1>1, <2>1, AppendProperties, AppendToSuffix
    <2>4. files' \in [Chats -> Seq(Lines)] /\ log' \in [Chats -> Seq(Lines)]
      BY <1>1, <2>1, <2>3
    <2>5. ASSUME NEW d \in Chats PROVE S!IsSuffix(files'[d], log'[d])
      BY <1>1, <2>1, <2>3
    <2>6. S!TypeOK'
      BY <1>1, <2>1, <2>2, <2>4 DEF S!TypeOK, Lines
    <2> QED
      BY <2>2, <2>5, <2>6 DEF SessionInv
  <1>5. ASSUME NEW chats \in SUBSET Chats, S!Clear(chats) PROVE SessionInv'
    <2>1. /\ files' = [c \in Chats |-> IF c \in chats THEN <<>> ELSE files[c]]
          /\ cleared' = cleared \cup chats
          /\ UNCHANGED <<tmp, lines, log, appends, spc, chat, sboots>>
      BY <1>5 DEF S!Clear
    <2>2. \A c \in Chats : files'[c] \in {<<>>, files[c]}
      BY <2>1
    <2>3. files' \in [Chats -> Seq(Lines)]
      BY <1>1, <1>3, <2>1
    <2>4. S!TypeOK'
      BY <1>1, <2>1, <2>3 DEF S!TypeOK, Lines
    <2>5. \A c \in Chats : S!IsSuffix(files'[c], log'[c])
      BY <1>1, <1>3, <2>1, <2>2
    <2> QED
      BY <1>1, <2>1, <2>4, <2>5 DEF SessionInv
  <1>6. CASE S!CopyKept
    <2>1. UNCHANGED <<files, lines, log, cleared, appends, chat, sboots>>
      BY <1>6 DEF S!CopyKept
    <2>2. CASE UNCHANGED tmp /\ spc' = "unlocked"
      BY <1>1, <2>1, <2>2 DEF SessionInv, S!TypeOK, Lines
    <2>3. CASE /\ Len(files[chat]) > KeepLines
               /\ tmp' = [tmp EXCEPT ![chat] = S!Kept(files[chat])] /\ spc' = "copied"
      <3>1. Len(files[chat]) \in Nat
        BY <1>1, LenProperties
      <3>2. /\ S!Last(files[chat], KeepLines) \in Seq(Lines)
            /\ S!IsSuffix(S!Last(files[chat], KeepLines), log[chat])
        BY <1>1, <1>2, <2>3, <3>1, LastOfSuffix
      <3>3. S!Kept(files[chat]) = S!Last(files[chat], KeepLines)
        BY DEF S!Kept
      <3>4. tmp' \in [Chats -> Seq(Lines)] /\ S!IsSuffix(tmp'[chat], log[chat])
        BY <1>1, <2>3, <3>2, <3>3
      <3> QED
        BY <1>1, <2>1, <2>3, <3>4 DEF SessionInv, S!TypeOK, Lines
    <2> QED
      BY <1>6, <2>2, <2>3 DEF S!CopyKept
  <1>7. CASE S!RemoveOld
    <2>1. /\ spc = "copied" /\ spc' = "removed"
          /\ files' = [files EXCEPT ![chat] = <<>>]
          /\ UNCHANGED <<tmp, lines, log, cleared, appends, chat, sboots>>
      BY <1>7 DEF S!RemoveOld
    <2>2. files' \in [Chats -> Seq(Lines)]
      BY <1>1, <1>3, <2>1
    <2>3. \A c \in Chats : S!IsSuffix(files'[c], log'[c])
      BY <1>1, <1>3, <2>1
    <2> QED
      BY <1>1, <2>1, <2>2, <2>3 DEF SessionInv, S!TypeOK, Lines
  <1>8. CASE S!RenameNew
    <2>1. /\ spc = "removed" /\ spc' = "unlocked"
          /\ files' = [files EXCEPT ![chat] = tmp[chat]]
          /\ tmp' = [tmp EXCEPT ![chat] = <<>>]
          /\ UNCHANGED <<lines, log, cleared, appends, chat, sboots>>
      BY <1>8 DEF S!RenameNew
    <2>2. files' \in [Chats -> Seq(Lines)] /\ tmp' \in [Chats -> Seq(Lines)]
      BY <1>1, <1>3, <2>1
    <2>3. \A c \in Chats : S!IsSuffix(files'[c], log'[c])
      BY <1>1, <2>1
    <2> QED
      BY <1>1, <2>1, <2>2, <2>3 DEF SessionInv, S!TypeOK, Lines
  <1>9. CASE S!Boot
    BY <1>1, <1>2, <1>9 DEF S!Boot, SessionInv, S!TypeOK, Lines
  <1>10. CASE UNCHANGED S!vars
    BY <1>1, <1>10 DEF S!vars, SessionInv, S!TypeOK, Lines
  <1> QED
    BY <1>4, <1>5, <1>6, <1>7, <1>8, <1>9, <1>10 DEF S!Next

LEMMA SessionCorrect == Spec => [](focus = "session" => SessionInv)
  <1> DEFINE Inv == focus = "session" => SessionInv
  <1>1. Init => Inv
    BY InitSession DEF Init
  <1>2. Inv /\ [Next]_vars => Inv'
    <2> SUFFICES ASSUME Inv, [Next]_vars, focus' = "session" PROVE SessionInv'
      OBVIOUS
    <2>1. focus = "session"
      BY DEF Next, Agent, Cron, Session, Https, Network, Media, Page, vars
    <2>2. [S!Next]_(S!vars)
      BY <2>1 DEF Next, Agent, Cron, Session, Https, Network, Media, Page, vars, sessionVars, S!vars
    <2> QED
      BY <2>1, <2>2, SessionStepKeeps
  <1> QED
    BY <1>1, <1>2, PTL DEF Spec

(* The history the model is shown of a chat is the latest part of what was  *)
(* appended to it, whole and in order, whatever was truncated, cleared or   *)
(* cut short by a power failure (core/session_mgr.c).                       *)
THEOREM HistoryStaysRecent == Spec => []HistoryIsRecent
  <1>1. (focus = "session" => SessionInv) => HistoryIsRecent
    <2> SUFFICES ASSUME SessionInv, NEW c \in Chats, NEW max \in 1 .. KeepLines
                 PROVE  S!IsSuffix(S!History(c, max), log[c])
      BY DEF HistoryIsRecent, S!HistoryIsRecent
    <2>1. /\ files[c] \in Seq(Lines) /\ log[c] \in Seq(Lines) /\ S!IsSuffix(files[c], log[c])
          /\ max \in Nat /\ Len(files[c]) \in Nat
      BY SessionAssumption, LenProperties DEF SessionInv, S!TypeOK, Lines
    <2>2. CASE Len(files[c]) < max
      BY <2>1, <2>2 DEF S!History
    <2>3. CASE ~(Len(files[c]) < max)
      BY <2>1, <2>3, LastOfSuffix DEF S!History
    <2> QED
      BY <2>2, <2>3
  <1> QED
    BY <1>1, SessionCorrect, PTL

-----------------------------------------------------------------------------
(* The way of a request.  Earlier and Recorded are what AnswersInOrder and  *)
(* SaidIsRemembered ask of two texts and of one.                            *)
Earlier(r, q) == \E j, k \in 1 .. Len(accepted) : j < k /\ accepted[j] = r /\ accepted[k] = q
Recorded(r) == \E h \in 2 .. Len(history) : history[h] = <<"assistant", r>>
                                            /\ history[h - 1] = <<"user", r>>
Placed(r) == \E k \in 1 .. Len(accepted) - Len(inq) : accepted[k] = r

InOrder(x, y) ==
  Channel[x[2]] = Channel[y[2]] /\ Channel[x[2]] # "voice" =>
    Earlier(x[2], y[2]) \/ (x[2] = y[2] /\ x = A!Status(x[2]) /\ y # A!Status(x[2]))

(* What is true of every text that is said, being delivered or queued: its  *)
(* request was popped, and before the one being answered, unless it is the  *)
(* status line of that one.                                                 *)
Fits(x) ==
  /\ Placed(x[2])
  /\ x[1] = "answer" => Recorded(x[2])
  /\ cur # NoRequest => Earlier(x[2], cur) \/ (x = A!Status(cur) /\ pc # "got")

AgentTypes ==
  /\ accepted \in Seq(Requests) /\ inq \in Seq(Requests)
  /\ outq \in Seq(A!Texts) /\ said \in Seq(A!Texts)
  /\ out \in A!Texts \cup {A!NoText} /\ (out # A!NoText <=> dpc = "got")
  /\ cur \in Requests \cup {NoRequest} /\ (cur # NoRequest <=> pc \in {"got", "llm", "dispatch"})
  /\ history \in Seq({"user", "assistant"} \X Requests)

(* The inbound queue is what was accepted last.                             *)
QueueOfAccepted ==
  /\ Len(inq) <= Len(accepted)
  /\ \A k \in 1 .. Len(inq) : inq[k] = accepted[Len(accepted) - Len(inq) + k]
  /\ cur # NoRequest => Placed(cur)

(* The texts said, the one being delivered and those queued, in this order. *)
TextsInOrder ==
  /\ \A k \in 1 .. Len(said) : Fits(said[k])
  /\ out # A!NoText => Fits(out)
  /\ \A k \in 1 .. Len(outq) : Fits(outq[k])
  /\ \A j, k \in 1 .. Len(said) : j < k => InOrder(said[j], said[k])
  /\ out # A!NoText => \A j \in 1 .. Len(said) : InOrder(said[j], out)
  /\ \A j \in 1 .. Len(said), k \in 1 .. Len(outq) : InOrder(said[j], outq[k])
  /\ out # A!NoText => \A k \in 1 .. Len(outq) : InOrder(out, outq[k])
  /\ \A j, k \in 1 .. Len(outq) : j < k => InOrder(outq[j], outq[k])

AgentInv == AgentTypes /\ QueueOfAccepted /\ TextsInOrder

LEMMA TextFields ==
  /\ \A r \in Requests :
       /\ A!Ask(r) \in A!Texts /\ A!Status(r) \in A!Texts /\ A!Note(r) \in A!Texts
       /\ <<"answer", r>> \in A!Texts
       /\ A!Status(r)[1] = "status" /\ A!Status(r)[2] = r
       /\ A!Note(r)[1] = "note" /\ A!Note(r)[2] = r
       /\ A!Note(r) # A!Status(r) /\ <<"answer", r>> # A!Status(r)
  /\ A!NoText \notin A!Texts
  /\ \A x \in A!Texts : x[2] \in Requests
  BY AgentAssumption DEF A!Texts, A!Ask, A!Status, A!Note, A!NoText

(* Requests are only added to what was accepted, and lines to the history.  *)
LEMMA EarlierStays ==
  ASSUME AgentTypes, NEW r \in Requests, accepted' = accepted \/ accepted' = Append(accepted, r)
  PROVE  /\ Len(accepted) \in Nat /\ Len(accepted') >= Len(accepted)
         /\ \A k \in 1 .. Len(accepted) : accepted'[k] = accepted[k]
         /\ \A p, q : Earlier(p, q) => Earlier(p, q)'
         /\ \A x, y : InOrder(x, y) => InOrder(x, y)'
  <1>1. /\ Len(accepted) \in Nat /\ Len(accepted') \in Nat /\ Len(accepted') >= Len(accepted)
        /\ \A k \in 1 .. Len(accepted) : accepted'[k] = accepted[k]
    <2>1. accepted \in Seq(Requests) /\ Len(accepted) \in Nat
      BY LenProperties DEF AgentTypes
    <2>2. CASE accepted' = Append(accepted, r)
      BY <2>1, <2>2, AppendProperties
    <2> QED
      BY <2>1, <2>2
  <1>2. \A p, q : Earlier(p, q) => Earlier(p, q)'
    BY <1>1 DEF Earlier
  <1>3. \A x, y : InOrder(x, y) => InOrder(x, y)'
    BY <1>2 DEF InOrder
  <1> QED
    BY <1>1, <1>2, <1>3

LEMMA RecordedStays ==
  ASSUME AgentTypes, NEW r \in Requests
  PROVE  LET h1 == history \o A!Exchange(r)
         IN  /\ h1 \in Seq({"user", "assistant"} \X Requests)
             /\ history' = h1 => /\ \A q : Recorded(q) => Recorded(q)'
                                 /\ Recorded(r)'
  <1> DEFINE Entries == {"user", "assistant"} \X Requests
             e == A!Exchange(r)
             h1 == history \o e
  <1>1. e \in Seq(Entries) /\ Len(e) = 2 /\ e[1] = <<"user", r>> /\ e[2] = <<"assistant", r>>
    BY DEF A!Exchange
  <1>2. history \in Seq(Entries) /\ Len(history) \in Nat
    BY LenProperties DEF AgentTypes
  <1> HIDE DEF e, Entries
  <1>3. /\ h1 \in Seq(Entries) /\ Len(h1) = Len(history) + 2
        /\ \A k \in 1 .. Len(h1) :
             h1[k] = IF k <= Len(history) THEN history[k] ELSE e[k - Len(history)]
    <2>1. /\ history \o e \in Seq(Entries) /\ Len(history \o e) = Len(history) + Len(e)
          /\ \A k \in 1 .. Len(history) + Len(e) :
               (history \o e)[k] = IF k <= Len(history) THEN history[k] ELSE e[k - Len(history)]
      BY <1>1, <1>2, ConcatProperties
    <2> HIDE DEF h1
    <2> QED
      BY <1>1, <2>1, Zenon DEF h1
  <1>4. ASSUME history' = h1, NEW q, Recorded(q) PROVE Recorded(q)'
    <2> HIDE DEF h1
    <2>1. PICK h \in 2 .. Len(history) : history[h] = <<"assistant", q>>
                                         /\ history[h - 1] = <<"user", q>>
      BY <1>4 DEF Recorded
    <2>2. h \in 2 .. Len(h1) /\ h1[h] = history[h] /\ h1[h - 1] = history[h - 1]
      BY <1>2, <1>3, <2>1
    <2> QED
      BY <1>4, <2>1, <2>2 DEF Recorded
  <1>5. ASSUME history' = h1 PROVE Recorded(r)'
    <2> DEFINE h == Len(history) + 2
    <2>1. h \in 2 .. Len(h1) /\ h1[h] = e[2] /\ h1[h - 1] = e[1]
      BY <1>2, <1>3
    <2> HIDE DEF h1, h
    <2> QED
      BY <1>1, <1>5, <2>1 DEF Recorded
  <1> QED
    BY <1>3, <1>4, <1>5 DEF e, Entries

-----------------------------------------------------------------------------
(* How the order of the texts is kept by a step that adds none, ...         *)
LEMMA NoneAdded ==
  ASSUME TextsInOrder, UNCHANGED <<said, out, outq>>,
         \A x : Fits(x) => Fits(x)', \A x, y : InOrder(x, y) => InOrder(x, y)'
  PROVE  TextsInOrder'
  BY DEF TextsInOrder

(* ... queues one that is in order with all before, ...                     *)
LEMMA OneQueued ==
  ASSUME AgentTypes, TextsInOrder, NEW t \in A!Texts,
         UNCHANGED <<said, out>>, outq' = Append(outq, t),
         \A x : Fits(x) => Fits(x)', \A x, y : InOrder(x, y) => InOrder(x, y)',
         Fits(t)', \A x : Fits(x) => InOrder(x, t)
  PROVE  TextsInOrder'
  <1>1. /\ Len(outq) \in Nat /\ Len(outq') = Len(outq) + 1 /\ outq'[Len(outq) + 1] = t
        /\ \A k \in 1 .. Len(outq) : outq'[k] = outq[k]
    BY LenProperties, AppendProperties DEF AgentTypes
  <1>2. \A k \in 1 .. Len(outq') :
          \/ k \in 1 .. Len(outq) /\ outq'[k] = outq[k]
          \/ k = Len(outq) + 1 /\ outq'[k] = t
    BY <1>1
  <1>3. \A k \in 1 .. Len(outq') : Fits(outq[k])'
    BY <1>2 DEF TextsInOrder
  <1>4. \A j \in 1 .. Len(said), k \in 1 .. Len(outq') : InOrder(said[j], outq[k])'
    BY <1>2 DEF TextsInOrder
  <1>5. out # A!NoText => \A k \in 1 .. Len(outq') : InOrder(out, outq[k])'
    BY <1>2 DEF TextsInOrder
  <1>6. ASSUME NEW j \in 1 .. Len(outq'), NEW k \in 1 .. Len(outq'), j < k
        PROVE  InOrder(outq[j], outq[k])'
    <2>1. j \in 1 .. Len(outq) /\ outq'[j] = outq[j]
      BY <1>1, <1>2, <1>6
    <2> QED
      BY <1>2, <1>6, <2>1 DEF TextsInOrder
  <1> QED
    BY <1>3, <1>4, <1>5, <1>6 DEF TextsInOrder

(* ... or speaks one on the voice channel, which has no order to keep.      *)
LEMMA OneSpoken ==
  ASSUME AgentTypes, TextsInOrder, NEW t \in A!Texts, Channel[t[2]] = "voice",
         UNCHANGED <<out, outq>>, said' = Append(said, t),
         \A x : Fits(x) => Fits(x)', \A x, y : InOrder(x, y) => InOrder(x, y)', Fits(t)'
  PROVE  TextsInOrder'
  <1>1. /\ Len(said) \in Nat /\ Len(said') = Len(said) + 1 /\ said'[Len(said) + 1] = t
        /\ \A k \in 1 .. Len(said) : said'[k] = said[k]
    BY LenProperties, AppendProperties DEF AgentTypes
  <1>2. \A k \in 1 .. Len(said') :
          \/ k \in 1 .. Len(said) /\ said'[k] = said[k]
          \/ k = Len(said) + 1 /\ said'[k] = t
    BY <1>1
  <1>3. \A x : InOrder(x, t)' /\ InOrder(t, x)'
    BY DEF InOrder
  <1>4. \A k \in 1 .. Len(said') : Fits(said[k])'
    BY <1>2 DEF TextsInOrder
  <1>5. \A j, k \in 1 .. Len(said') : j < k => InOrder(said[j], said[k])'
    BY <1>2, <1>3 DEF TextsInOrder
  <1>6. /\ out # A!NoText => \A j \in 1 .. Len(said') : InOrder(said[j], out)'
        /\ \A j \in 1 .. Len(said'), k \in 1 .. Len(outq) : InOrder(said[j], outq[k])'
    BY <1>2, <1>3 DEF TextsInOrder
  <1> QED
    BY <1>4, <1>5, <1>6 DEF TextsInOrder

(* A turn that ends leaves the other texts as they were.                    *)
LEMMA TurnEnds ==
  ASSUME AgentInv, NEW r \in Requests, cur = r,
         UNCHANGED <<accepted, inq>>, cur' = NoRequest,
         UNCHANGED history \/ history' = history \o A!Exchange(r)
  PROVE  /\ \A x : Fits(x) => Fits(x)'
         /\ \A x, y : InOrder(x, y) => InOrder(x, y)'
         /\ \A x : x[2] = r /\ (x[1] = "answer" => Recorded(r)') => Fits(x)'
  <1>1. \A q : Recorded(q) => Recorded(q)'
    BY RecordedStays DEF AgentInv, Recorded
  <1>2. \A q : Placed(q) <=> Placed(q)'
    BY DEF Placed
  <1>3. \A x : Fits(x) => Fits(x)'
    BY <1>1, <1>2 DEF Fits
  <1>4. \A x, y : InOrder(x, y) => InOrder(x, y)'
    BY DEF InOrder, Earlier
  <1>5. Placed(r)'
    BY <1>2, AgentAssumption DEF AgentInv, QueueOfAccepted
  <1>6. ASSUME NEW x, x[2] = r, x[1] = "answer" => Recorded(r)' PROVE Fits(x)'
    BY <1>5, <1>6 DEF Fits
  <1> QED
    BY <1>3, <1>4, <1>6

(* PushOut of the answer, or of a note, to the request being answered.      *)
LEMMA PushOutKeeps ==
  ASSUME AgentInv, NEW r \in Requests, cur = r, NEW t \in A!Texts, A!PushOut(t),
         t[2] = r, t # A!Status(r),
         UNCHANGED <<accepted, inq, said, out, dpc>>,
         UNCHANGED history \/ history' = history \o A!Exchange(r),
         t[1] = "answer" => Recorded(r)'
  PROVE  TextsInOrder' /\ outq' \in Seq(A!Texts)
  <1>1. cur' = NoRequest /\ (UNCHANGED outq \/ outq' = Append(outq, t))
    BY DEF A!PushOut, A!EndTurn
  <1>2. /\ \A x : Fits(x) => Fits(x)'
        /\ \A x, y : InOrder(x, y) => InOrder(x, y)'
        /\ Fits(t)'
    BY <1>1, TurnEnds
  <1>3. ASSUME NEW x, Fits(x) PROVE InOrder(x, t)
    <2>1. Earlier(x[2], r) \/ x = A!Status(r)
      BY <1>3, AgentAssumption DEF Fits
    <2>2. x = A!Status(r) => x[2] = r
      BY TextFields
    <2> QED
      BY <2>1, <2>2 DEF InOrder
  <1>4. CASE UNCHANGED outq
    BY <1>2, <1>4, NoneAdded DEF AgentInv, AgentTypes
  <1>5. CASE outq' = Append(outq, t)
    <2>1. outq' \in Seq(A!Texts)
      BY <1>5, AppendProperties DEF AgentInv, AgentTypes
    <2> QED
      BY <1>2, <1>3, <1>5, <2>1, OneQueued DEF AgentInv
  <1> QED
    BY <1>1, <1>4, <1>5

(* Speaking a text on the voice channel, or failing to.                     *)
LEMMA SpeakKeeps ==
  ASSUME AgentInv, NEW r \in Requests, cur = r, NEW t \in A!Texts, t[2] = r,
         Channel[r] = "voice", said' = Append(said, t) \/ UNCHANGED said,
         cur' = NoRequest, UNCHANGED <<accepted, inq, outq, out, dpc>>,
         UNCHANGED history \/ history' = history \o A!Exchange(r),
         t[1] = "answer" => Recorded(r)'
  PROVE  TextsInOrder' /\ said' \in Seq(A!Texts)
  <1>2. /\ \A x : Fits(x) => Fits(x)'
        /\ \A x, y : InOrder(x, y) => InOrder(x, y)'
        /\ Fits(t)'
    BY TurnEnds
  <1>3. CASE UNCHANGED said
    BY <1>2, <1>3, NoneAdded DEF AgentInv, AgentTypes
  <1>4. CASE said' = Append(said, t)
    <2>1. said' \in Seq(A!Texts)
      BY <1>4, AppendProperties DEF AgentInv, AgentTypes
    <2> QED
      BY <1>2, <1>4, <2>1, OneSpoken DEF AgentInv
  <1> QED
    BY <1>3, <1>4

LEMMA InitAgent == A!Init => AgentInv
  <1> SUFFICES ASSUME A!Init PROVE AgentInv
    OBVIOUS
  <1>1. AgentTypes
    BY AgentAssumption DEF A!Init, AgentTypes
  <1>2. QueueOfAccepted /\ TextsInOrder
    BY DEF A!Init, QueueOfAccepted, TextsInOrder
  <1> QED
    BY <1>1, <1>2 DEF AgentInv

LEMMA SendKeeps == ASSUME NEW r \in Requests, AgentInv, A!Send(r) PROVE AgentInv'
  <1>1. UNCHANGED <<pc, cur, answer, history, dpc, out, outq, said, stage>>
    BY DEF A!Send, A!agentVars, A!dispatchVars
  <1>2. /\ accepted \in Seq(Requests) /\ inq \in Seq(Requests)
        /\ Len(accepted) \in Nat /\ Len(inq) \in Nat /\ Len(inq) <= Len(accepted)
        /\ \A k \in 1 .. Len(inq) : inq[k] = accepted[Len(accepted) - Len(inq) + k]
    BY LenProperties DEF AgentInv, AgentTypes, QueueOfAccepted
  <1>3. CASE UNCHANGED <<inq, accepted>>
    <2>1. \A x : Fits(x) => Fits(x)'
      BY <1>1, <1>3 DEF Fits, Placed, Recorded, Earlier
    <2>2. \A x, y : InOrder(x, y) => InOrder(x, y)'
      BY <1>1, <1>3 DEF InOrder, Earlier
    <2>3. TextsInOrder'
      BY <1>1, <2>1, <2>2, NoneAdded DEF AgentInv
    <2> QED
      BY <1>1, <1>3, <2>3 DEF AgentInv, AgentTypes, QueueOfAccepted, Placed
  <1>4. CASE inq' = Append(inq, r) /\ accepted' = Append(accepted, r)
    <2>1. /\ accepted' \in Seq(Requests) /\ Len(accepted') = Len(accepted) + 1
          /\ accepted'[Len(accepted) + 1] = r
          /\ \A k \in 1 .. Len(accepted) : accepted'[k] = accepted[k]
      BY <1>2, <1>4, AppendProperties
    <2>2. /\ inq' \in Seq(Requests) /\ Len(inq') = Len(inq) + 1
          /\ inq'[Len(inq) + 1] = r
          /\ \A k \in 1 .. Len(inq) : inq'[k] = inq[k]
      BY <1>2, <1>4, AppendProperties
    <2>3. \A q : Placed(q) => Placed(q)'
      <3>1. /\ Len(accepted') - Len(inq') = Len(accepted) - Len(inq)
            /\ \A k \in 1 .. Len(accepted) - Len(inq) : k \in 1 .. Len(accepted)
        BY <1>2, <2>1, <2>2
      <3> QED
        BY <2>1, <3>1 DEF Placed
    <2>4. /\ \A p, q : Earlier(p, q) => Earlier(p, q)'
          /\ \A x, y : InOrder(x, y) => InOrder(x, y)'
      BY <1>4, EarlierStays DEF AgentInv
    <2>5. \A x : Fits(x) => Fits(x)'
      BY <1>1, <2>3, <2>4 DEF Fits, Recorded
    <2>6. TextsInOrder'
      BY <1>1, <2>4, <2>5, NoneAdded DEF AgentInv
    <2>7. ASSUME NEW k \in 1 .. Len(inq')
          PROVE  inq'[k] = accepted'[Len(accepted') - Len(inq') + k]
      <3>1. Len(accepted') - Len(inq') + k = Len(accepted) - Len(inq) + k
        BY <1>2, <2>1, <2>2
      <3>2. CASE k = Len(inq) + 1
        BY <1>2, <2>1, <2>2, <3>1, <3>2
      <3>3. CASE k # Len(inq) + 1
        <4>1. k \in 1 .. Len(inq) /\ Len(accepted) - Len(inq) + k \in 1 .. Len(accepted)
          BY <1>2, <2>2, <3>3
        <4> QED
          BY <1>2, <2>1, <2>2, <3>1, <4>1
      <3> QED
        BY <3>2, <3>3
    <2>8. QueueOfAccepted'
      <3>1. cur' # NoRequest => Placed(cur)'
        BY <1>1, <2>3 DEF AgentInv, QueueOfAccepted
      <3> QED
        BY <1>2, <2>1, <2>2, <2>7, <3>1 DEF QueueOfAccepted
    <2>9. AgentTypes'
      BY <1>1, <2>1, <2>2 DEF AgentInv, AgentTypes
    <2> QED
      BY <2>6, <2>8, <2>9 DEF AgentInv
  <1> QED
    BY <1>3, <1>4 DEF A!Send

(* The request that is popped was accepted after all that were popped.      *)
LEMMA PopKeeps == AgentInv /\ A!PopRequest => AgentInv'
  <1> SUFFICES ASSUME AgentInv, A!PopRequest PROVE AgentInv'
    OBVIOUS
  <1>1. /\ pc = "pop" /\ pc' = "got" /\ inq # <<>> /\ cur' = Head(inq) /\ inq' = Tail(inq)
        /\ UNCHANGED <<accepted, outq, dpc, out, said, history>>
    BY DEF A!PopRequest, A!senderVars, A!dispatchVars
  <1>2. /\ accepted \in Seq(Requests) /\ inq \in Seq(Requests)
        /\ Len(accepted) \in Nat /\ Len(inq) \in Nat /\ Len(inq) <= Len(accepted)
        /\ \A k \in 1 .. Len(inq) : inq[k] = accepted[Len(accepted) - Len(inq) + k]
    BY LenProperties DEF AgentInv, AgentTypes, QueueOfAccepted
  <1>3. /\ Len(inq) >= 1 /\ inq' \in Seq(Requests) /\ Len(inq') = Len(inq) - 1
        /\ cur' = inq[1] /\ cur' \in Requests
        /\ \A k \in 1 .. Len(inq') : inq'[k] = inq[k + 1]
    BY <1>1, <1>2, HeadTailProperties
  <1> DEFINE n == Len(accepted) - Len(inq)
  <1>4. n \in Nat /\ n + 1 \in 1 .. Len(accepted) /\ Len(accepted) - Len(inq') = n + 1
        /\ accepted[n + 1] = cur'
    BY <1>2, <1>3
  <1>5. Placed(cur)' /\ \A q : Placed(q) => Placed(q)'
    BY <1>1, <1>4 DEF Placed
  <1>6. ASSUME NEW q, Placed(q) PROVE Earlier(q, cur')
    <2>1. PICK k \in 1 .. n : accepted[k] = q
      BY <1>6 DEF Placed
    <2>2. k \in 1 .. Len(accepted) /\ k < n + 1
      BY <1>2, <1>4, <2>1
    <2> QED
      BY <1>4, <2>1, <2>2 DEF Earlier
  <1>7. \A x : Fits(x) => Fits(x)'
    BY <1>1, <1>5, <1>6 DEF Fits, Recorded, Earlier
  <1>8. \A x, y : InOrder(x, y) => InOrder(x, y)'
    BY <1>1 DEF InOrder, Earlier
  <1>9. TextsInOrder'
    BY <1>1, <1>7, <1>8, NoneAdded DEF AgentInv
  <1>10. AgentTypes'
    BY <1>1, <1>3, AgentAssumption DEF AgentInv, AgentTypes
  <1>11. ASSUME NEW k \in 1 .. Len(inq')
         PROVE  inq'[k] = accepted[Len(accepted) - Len(inq') + k]
    <2>1. /\ Len(accepted) \in Nat /\ Len(inq) \in Nat /\ Len(inq') = Len(inq) - 1 /\ k \in Nat
          /\ 1 <= k /\ k <= Len(inq')
      BY <1>2, <1>3
    <2>2. k + 1 \in 1 .. Len(inq)
      BY <2>1
    <2>3. Len(accepted) - Len(inq') + k = Len(accepted) - Len(inq) + (k + 1)
      BY <2>1
    <2> QED
      BY <1>2, <1>3, <2>2, <2>3
  <1>12. QueueOfAccepted'
    BY <1>1, <1>2, <1>3, <1>5, <1>11 DEF QueueOfAccepted
  <1> QED
    BY <1>9, <1>10, <1>12 DEF AgentInv

(* What is left to say of a step that ends the turn.                        *)
LEMMA AfterTurn ==
  ASSUME AgentInv, NEW r \in Requests, UNCHANGED <<accepted, inq, out, dpc>>,
         cur' = NoRequest, pc' \in {"loop", "exit"},
         UNCHANGED history \/ history' = history \o A!Exchange(r),
         said' \in Seq(A!Texts), outq' \in Seq(A!Texts), TextsInOrder'
  PROVE  AgentInv'
  <1>1. history' \in Seq({"user", "assistant"} \X Requests)
    BY RecordedStays DEF AgentInv, AgentTypes
  <1>2. AgentTypes'
    BY <1>1 DEF AgentInv, AgentTypes
  <1>3. QueueOfAccepted'
    BY DEF AgentInv, QueueOfAccepted
  <1> QED
    BY <1>2, <1>3 DEF AgentInv

(* Every way a turn can end, as PushOut, aloud or without a word.           *)
LEMMA SilentEnd ==
  ASSUME AgentInv, NEW r \in Requests, cur = r, cur' = NoRequest, pc' \in {"loop", "exit"},
         UNCHANGED <<accepted, inq, out, dpc, said, outq>>,
         UNCHANGED history \/ history' = history \o A!Exchange(r)
  PROVE  AgentInv'
  <1>1. /\ \A x : Fits(x) => Fits(x)'
        /\ \A x, y : InOrder(x, y) => InOrder(x, y)'
    BY TurnEnds
  <1>2. TextsInOrder'
    BY <1>1, NoneAdded DEF AgentInv
  <1>3. said' \in Seq(A!Texts) /\ outq' \in Seq(A!Texts)
    BY DEF AgentInv, AgentTypes
  <1> QED
    BY <1>2, <1>3, AfterTurn

LEMMA PushedEnd ==
  ASSUME AgentInv, NEW r \in Requests, cur = r, NEW t \in A!Texts, A!PushOut(t),
         t[2] = r, t # A!Status(r),
         UNCHANGED <<accepted, inq, said, out, dpc>>,
         UNCHANGED history \/ history' = history \o A!Exchange(r),
         t[1] = "answer" => Recorded(r)'
  PROVE  AgentInv'
  <1>1. TextsInOrder' /\ outq' \in Seq(A!Texts)
    BY PushOutKeeps
  <1>2. cur' = NoRequest /\ pc' = "loop" /\ said' \in Seq(A!Texts)
    BY DEF A!PushOut, A!EndTurn, AgentInv, AgentTypes
  <1> QED
    BY <1>1, <1>2, AfterTurn

LEMMA SpokenEnd ==
  ASSUME AgentInv, NEW r \in Requests, cur = r, NEW t \in A!Texts, t[2] = r,
         Channel[r] = "voice", said' = Append(said, t) \/ UNCHANGED said,
         cur' = NoRequest, pc' = "loop", UNCHANGED <<accepted, inq, outq, out, dpc>>,
         UNCHANGED history \/ history' = history \o A!Exchange(r),
         t[1] = "answer" => Recorded(r)'
  PROVE  AgentInv'
  <1>1. TextsInOrder' /\ said' \in Seq(A!Texts)
    BY SpeakKeeps
  <1>2. outq' \in Seq(A!Texts)
    BY DEF AgentInv, AgentTypes
  <1> QED
    BY <1>1, <1>2, AfterTurn

(* A step in the middle of a turn that adds no text.                        *)
LEMMA MidTurn ==
  ASSUME AgentInv, NEW r \in Requests, cur = r, UNCHANGED cur,
         pc' \in {"llm", "dispatch"},
         UNCHANGED <<accepted, inq, out, dpc, said, outq>>,
         UNCHANGED history \/ history' = history \o A!Exchange(r)
  PROVE  AgentInv'
  <1>1. \A q : Recorded(q) => Recorded(q)'
    BY RecordedStays DEF AgentInv, Recorded
  <1>2. \A q : Placed(q) <=> Placed(q)'
    BY DEF Placed
  <1>3. \A x : Fits(x) => Fits(x)'
    BY <1>1, <1>2 DEF Fits, Earlier
  <1>4. \A x, y : InOrder(x, y) => InOrder(x, y)'
    BY DEF InOrder, Earlier
  <1>5. TextsInOrder'
    BY <1>3, <1>4, NoneAdded DEF AgentInv
  <1>6. history' \in Seq({"user", "assistant"} \X Requests)
    BY RecordedStays DEF AgentInv, AgentTypes
  <1>7. AgentTypes'
    BY <1>6, AgentAssumption DEF AgentInv, AgentTypes
  <1>8. QueueOfAccepted'
    BY DEF AgentInv, QueueOfAccepted, Placed
  <1> QED
    BY <1>5, <1>7, <1>8 DEF AgentInv

LEMMA ThinkKeeps == AgentInv /\ A!Think => AgentInv'
  <1> SUFFICES ASSUME AgentInv, A!Think PROVE AgentInv'
    OBVIOUS
  <1>1. /\ pc = "got" /\ pc' = "llm"
        /\ UNCHANGED <<accepted, inq, cur, dpc, out, said, history>>
        /\ UNCHANGED outq \/ outq' = Append(outq, A!Status(cur))
    BY DEF A!Think, A!senderVars, A!dispatchVars
  <1>2. PICK r \in Requests : cur = r
    BY <1>1 DEF AgentInv, AgentTypes
  <1>3. CASE UNCHANGED outq
    BY <1>1, <1>2, <1>3, MidTurn
  <1>4. CASE outq' = Append(outq, A!Status(r))
    <2> DEFINE t == A!Status(r)
    <2>1. t \in A!Texts /\ t[1] = "status" /\ t[2] = r
      BY TextFields
    <2> HIDE DEF t
    <2>2. \A x : Fits(x) => Fits(x)'
      BY <1>1 DEF Fits, Placed, Recorded, Earlier
    <2>3. \A x, y : InOrder(x, y) => InOrder(x, y)'
      BY <1>1 DEF InOrder, Earlier
    <2>4. ASSUME NEW x, Fits(x) PROVE InOrder(x, t)
      <3>1. Earlier(x[2], r)
        BY <1>1, <1>2, <2>4, AgentAssumption DEF Fits
      <3> QED
        BY <2>1, <3>1 DEF InOrder
    <2>5. Fits(t)'
      <3>1. Placed(r)'
        BY <1>1, <1>2, AgentAssumption DEF AgentInv, QueueOfAccepted, Placed
      <3> QED
        BY <1>1, <1>2, <2>1, <3>1 DEF Fits, t
    <2>6. TextsInOrder'
      BY <1>1, <1>4, <2>1, <2>2, <2>3, <2>4, <2>5, OneQueued DEF AgentInv, t
    <2>7. outq' \in Seq(A!Texts)
      BY <1>4, <2>1, AppendProperties DEF AgentInv, AgentTypes, t
    <2>8. AgentTypes'
      BY <1>1, <1>2, <2>7, AgentAssumption DEF AgentInv, AgentTypes
    <2>9. QueueOfAccepted'
      BY <1>1 DEF AgentInv, QueueOfAccepted, Placed
    <2> QED
      BY <2>6, <2>8, <2>9 DEF AgentInv
  <1> QED
    BY <1>1, <1>2, <1>3, <1>4

LEMMA DispatchKeeps == AgentInv /\ A!Dispatch => AgentInv'
  <1> SUFFICES ASSUME AgentInv, A!Dispatch PROVE AgentInv'
    OBVIOUS
  <1>1. pc = "dispatch" /\ UNCHANGED <<accepted, inq, dpc, out>>
    BY DEF A!Dispatch, A!senderVars, A!dispatchVars
  <1>2. PICK r \in Requests : cur = r
    BY <1>1 DEF AgentInv, AgentTypes
  <1>3. /\ A!Note(r) \in A!Texts /\ A!Note(r)[1] # "answer" /\ A!Note(r)[2] = r
        /\ A!Note(r) # A!Status(r)
    BY TextFields
  <1> DEFINE t == <<"answer", r>>
  <1>4. t \in A!Texts /\ t[2] = r /\ t # A!Status(r)
    BY TextFields
  <1>5. CASE A!PushOut(A!Note(r)) /\ UNCHANGED <<history, said>>
    BY <1>1, <1>2, <1>3, <1>5, PushedEnd
  <1>6. CASE A!EndTurn({}) /\ UNCHANGED <<outq, history, said>>
    BY <1>1, <1>2, <1>6, SilentEnd DEF A!EndTurn
  <1>7. ASSUME A!Record(r) PROVE history' = history \o A!Exchange(r) /\ Recorded(r)'
    BY <1>7, RecordedStays DEF A!Record, AgentInv
  <1>8. CASE /\ A!Record(r) /\ Channel[r] = "voice"
             /\ said' = Append(said, t) \/ UNCHANGED said
             /\ A!EndTurn({}) /\ UNCHANGED outq
    <2> HIDE DEF t
    <2> QED
      BY <1>1, <1>2, <1>4, <1>7, <1>8, SpokenEnd DEF A!EndTurn
  <1>9. CASE A!Record(r) /\ A!PushOut(t) /\ UNCHANGED said
    <2> HIDE DEF t
    <2> QED
      BY <1>1, <1>2, <1>4, <1>7, <1>9, PushedEnd
  <1> QED
    BY <1>2, <1>5, <1>6, <1>8, <1>9 DEF A!Dispatch

(* The agent's turn.                                                        *)
LEMMA AgentStepKeeps == AgentInv /\ A!AgentStep => AgentInv'
  <1> SUFFICES ASSUME AgentInv, A!AgentStep PROVE AgentInv'
    OBVIOUS
  <1> USE DEF A!senderVars, A!dispatchVars
  <1>1. CASE A!LoopTest \/ A!PopFails
    <2>1. /\ UNCHANGED <<accepted, inq, outq, cur, dpc, out, said, history>>
          /\ pc \in {"loop", "pop"} /\ pc' \in {"loop", "pop", "exit"}
      BY <1>1 DEF A!LoopTest, A!PopFails
    <2>2. cur = NoRequest
      BY <2>1 DEF AgentInv, AgentTypes
    <2>3. \A x : Fits(x) => Fits(x)'
      BY <2>1, <2>2 DEF Fits, Placed, Recorded
    <2>4. \A x, y : InOrder(x, y) => InOrder(x, y)'
      BY <2>1 DEF InOrder, Earlier
    <2>5. TextsInOrder'
      BY <2>1, <2>3, <2>4, NoneAdded DEF AgentInv
    <2> QED
      BY <2>1, <2>2, <2>5 DEF AgentInv, AgentTypes, QueueOfAccepted
  <1>2. CASE pc \in {"got", "llm"} /\ ~A!Think
    <2>1. PICK r \in Requests : cur = r
      BY <1>2 DEF AgentInv, AgentTypes
    <2>2. /\ A!Note(r) \in A!Texts /\ A!Note(r)[1] # "answer" /\ A!Note(r)[2] = r
          /\ A!Note(r) # A!Status(r)
      BY TextFields
    <2>3. CASE A!GotShutdown
      BY <2>1, <2>3, SilentEnd DEF A!GotShutdown
    <2>4. CASE A!LowMemory
      <3>1. UNCHANGED <<accepted, inq, dpc, out, said, history>>
        BY <2>4 DEF A!LowMemory
      <3>2. CASE A!PushOut(A!Note(r))
        BY <2>1, <2>2, <3>1, <3>2, PushedEnd
      <3>3. CASE A!EndTurn({}) /\ UNCHANGED outq
        BY <2>1, <3>1, <3>3, SilentEnd DEF A!EndTurn
      <3> QED
        BY <2>1, <2>4, <3>2, <3>3 DEF A!LowMemory
    <2>5. CASE A!FastReply
      <3>1. UNCHANGED <<accepted, inq, dpc, out, history>>
        BY <2>5 DEF A!FastReply
      <3>2. CASE /\ Channel[r] = "voice"
                 /\ said' = Append(said, A!Note(r)) \/ UNCHANGED said
                 /\ A!EndTurn({}) /\ UNCHANGED outq
        BY <2>1, <2>2, <3>1, <3>2, SpokenEnd DEF A!EndTurn
      <3>3. CASE A!PushOut(A!Note(r)) /\ UNCHANGED said
        BY <2>1, <2>2, <3>1, <3>3, PushedEnd
      <3> QED
        BY <2>1, <2>5, <3>2, <3>3 DEF A!FastReply
    <2>6. CASE A!BlockedNoMemory
      BY <2>1, <2>6, SilentEnd DEF A!BlockedNoMemory, A!EndTurn
    <2>7. CASE A!QuickPath
      BY <2>1, <2>7, MidTurn DEF A!QuickPath
    <2>8. CASE A!VoiceStream
      <3> DEFINE t == <<"answer", r>>
      <3>1. t \in A!Texts /\ t[2] = r
        BY TextFields
      <3>2. /\ Channel[r] = "voice" /\ said' = Append(said, t)
            /\ history' = history \o A!Exchange(r)
            /\ cur' = NoRequest /\ pc' = "loop" /\ UNCHANGED <<accepted, inq, outq, out, dpc>>
        BY <2>1, <2>8 DEF A!VoiceStream, A!EndTurn
      <3>3. Recorded(r)'
        BY <3>2, RecordedStays DEF AgentInv
      <3> HIDE DEF t
      <3> QED
        BY <2>1, <3>1, <3>2, <3>3, SpokenEnd
    <2>9. CASE A!LlmEnds
      BY <2>1, <2>9, MidTurn DEF A!LlmEnds
    <2>10. pc \notin {"loop", "pop", "dispatch"}
      BY <1>2
    <2> QED
      BY <1>2, <2>3, <2>4, <2>5, <2>6, <2>7, <2>8, <2>9, <2>10
      DEF A!AgentStep, A!LoopTest, A!PopFails, A!PopRequest, A!Dispatch
  <1>3. pc \in {"got", "llm"} \/ A!LoopTest \/ A!PopFails \/ A!PopRequest \/ A!Dispatch
    BY DEF A!AgentStep, A!GotShutdown, A!LowMemory, A!FastReply, A!BlockedNoMemory,
           A!QuickPath, A!VoiceStream, A!Think, A!LlmEnds
  <1> QED
    BY <1>1, <1>2, <1>3, PopKeeps, ThinkKeeps, DispatchKeeps

(* The dispatcher takes the oldest text of the queue and delivers it.       *)
LEMMA DispatcherKeeps == AgentInv /\ A!DispatcherStep => AgentInv'
  <1> SUFFICES ASSUME AgentInv, A!DispatcherStep PROVE AgentInv'
    OBVIOUS
  <1>1. UNCHANGED <<accepted, inq, pc, cur, history>>
    BY DEF A!DispatcherStep, A!DispatcherTest, A!DispatcherIdle, A!DispatcherPops, A!Deliver,
           A!senderVars, A!agentVars
  <1>2. /\ \A x : Fits(x) => Fits(x)'
        /\ \A x, y : InOrder(x, y) => InOrder(x, y)'
    BY <1>1 DEF Fits, Placed, Recorded, Earlier, InOrder
  <1>3. QueueOfAccepted'
    BY <1>1 DEF AgentInv, QueueOfAccepted, Placed
  <1>4. CASE A!DispatcherTest \/ A!DispatcherIdle
    <2>1. /\ UNCHANGED <<out, said, outq>>
          /\ dpc # "got" /\ dpc' # "got"
      BY <1>4 DEF A!DispatcherTest, A!DispatcherIdle
    <2>2. TextsInOrder'
      BY <1>2, <2>1, NoneAdded DEF AgentInv
    <2>3. AgentTypes'
      BY <1>1, <2>1 DEF AgentInv, AgentTypes
    <2> QED
      BY <1>3, <2>2, <2>3 DEF AgentInv
  <1>5. CASE A!DispatcherPops
    <2>1. /\ dpc = "pop" /\ dpc' = "got" /\ outq # <<>> /\ UNCHANGED said
          /\ out' = Head(outq) /\ outq' = Tail(outq)
      BY <1>5 DEF A!DispatcherPops
    <2>2. out = A!NoText
      BY <2>1 DEF AgentInv, AgentTypes
    <2>3. /\ Len(outq) \in Nat /\ Len(outq) >= 1 /\ Len(outq') = Len(outq) - 1
          /\ outq' \in Seq(A!Texts) /\ out' = outq[1] /\ out' \in A!Texts
          /\ \A k \in 1 .. Len(outq') : outq'[k] = outq[k + 1]
      BY <2>1, LenProperties, HeadTailProperties DEF AgentInv, AgentTypes
    <2>4. \A k \in 1 .. Len(outq') : k + 1 \in 1 .. Len(outq) /\ 1 < k + 1 /\ 1 \in 1 .. Len(outq)
      BY <2>3
    <2>5. AgentTypes'
      BY <1>1, <2>1, <2>3, TextFields DEF AgentInv, AgentTypes
    <2>6. /\ \A k \in 1 .. Len(said') : Fits(said[k])'
          /\ \A j, k \in 1 .. Len(said') : j < k => InOrder(said[j], said[k])'
      BY <1>2, <2>1 DEF AgentInv, TextsInOrder
    <2>7. Fits(out)' /\ \A j \in 1 .. Len(said') : InOrder(said[j], out)'
      BY <1>2, <2>1, <2>3 DEF AgentInv, TextsInOrder
    <2>8. \A k \in 1 .. Len(outq') : Fits(outq[k])' /\ InOrder(out, outq[k])'
      BY <1>2, <2>3, <2>4 DEF AgentInv, TextsInOrder
    <2>9. \A j \in 1 .. Len(said'), k \in 1 .. Len(outq') : InOrder(said[j], outq[k])'
      BY <1>2, <2>1, <2>3, <2>4 DEF AgentInv, TextsInOrder
    <2>10. ASSUME NEW j \in 1 .. Len(outq'), NEW k \in 1 .. Len(outq'), j < k
           PROVE  InOrder(outq[j], outq[k])'
      <3>1. j + 1 \in 1 .. Len(outq) /\ k + 1 \in 1 .. Len(outq) /\ j + 1 < k + 1
        BY <2>3, <2>4, <2>10
      <3> QED
        BY <1>2, <2>3, <3>1 DEF AgentInv, TextsInOrder
    <2>11. TextsInOrder'
      BY <2>6, <2>7, <2>8, <2>9, <2>10 DEF TextsInOrder
    <2> QED
      BY <1>3, <2>5, <2>11 DEF AgentInv
  <1>6. CASE A!Deliver
    <2>1. /\ dpc = "got" /\ dpc' = "loop" /\ out' = A!NoText /\ UNCHANGED outq
          /\ said' = said \/ said' = Append(said, out)
      BY <1>6 DEF A!Deliver
    <2>2. out \in A!Texts /\ out # A!NoText
      BY <2>1 DEF AgentInv, AgentTypes
    <2>3. /\ said \in Seq(A!Texts) /\ Len(said) \in Nat /\ said' \in Seq(A!Texts)
          /\ \A k \in 1 .. Len(said') :
               \/ k \in 1 .. Len(said) /\ said'[k] = said[k]
               \/ k = Len(said) + 1 /\ said'[k] = out
      <3>1. said \in Seq(A!Texts) /\ Len(said) \in Nat
        BY LenProperties DEF AgentInv, AgentTypes
      <3>2. CASE said' = Append(said, out)
        <4>1. /\ said' \in Seq(A!Texts) /\ Len(said') = Len(said) + 1
              /\ said'[Len(said) + 1] = out
              /\ \A k \in 1 .. Len(said) : said'[k] = said[k]
          BY <2>2, <3>1, <3>2, AppendProperties
        <4> QED
          BY <3>1, <4>1
      <3> QED
        BY <2>1, <3>1, <3>2
    <2>4. AgentTypes'
      BY <1>1, <2>1, <2>3 DEF AgentInv, AgentTypes
    <2>5. \A k \in 1 .. Len(said') : Fits(said[k])'
      BY <1>2, <2>2, <2>3 DEF AgentInv, TextsInOrder
    <2>6. ASSUME NEW j \in 1 .. Len(said'), NEW k \in 1 .. Len(said'), j < k
          PROVE  InOrder(said[j], said[k])'
      <3>1. j \in 1 .. Len(said) /\ said'[j] = said[j]
        BY <2>3, <2>6
      <3> QED
        BY <1>2, <2>2, <2>3, <2>6, <3>1 DEF AgentInv, TextsInOrder
    <2>7. \A j \in 1 .. Len(said'), k \in 1 .. Len(outq') : InOrder(said[j], outq[k])'
      BY <1>2, <2>1, <2>2, <2>3 DEF AgentInv, TextsInOrder
    <2>8. /\ \A k \in 1 .. Len(outq') : Fits(outq[k])'
          /\ \A j, k \in 1 .. Len(outq') : j < k => InOrder(outq[j], outq[k])'
      BY <1>2, <2>1 DEF AgentInv, TextsInOrder
    <2>9. TextsInOrder'
      BY <2>1, <2>5, <2>6, <2>7, <2>8 DEF TextsInOrder
    <2> QED
      BY <1>3, <2>4, <2>9 DEF AgentInv
  <1> QED
    BY <1>4, <1>5, <1>6 DEF A!DispatcherStep

(* The shutdown changes no text, until the queues are forgotten.            *)
LEMMA ShutdownKeeps == AgentInv /\ (A!Quit \/ A!MainStep \/ A!Done \/ UNCHANGED A!vars) => AgentInv'
  <1> SUFFICES ASSUME AgentInv, A!Quit \/ A!MainStep \/ A!Done \/ UNCHANGED A!vars PROVE AgentInv'
    OBVIOUS
  <1>1. /\ UNCHANGED <<accepted, pc, cur, dpc, out, said, history>>
        /\ \/ UNCHANGED <<inq, outq>>
           \/ inq' = <<>> /\ outq' = <<>>
    BY DEF A!Quit, A!MainStep, A!Wakeup, A!Destroy, A!Done, A!vars, A!senderVars, A!agentVars,
           A!dispatchVars
  <1>2. CASE UNCHANGED <<inq, outq>>
    <2>1. /\ \A x : Fits(x) => Fits(x)'
          /\ \A x, y : InOrder(x, y) => InOrder(x, y)'
      BY <1>1, <1>2 DEF Fits, Placed, Recorded, Earlier, InOrder
    <2>2. TextsInOrder'
      BY <1>1, <1>2, <2>1, NoneAdded DEF AgentInv
    <2>3. AgentTypes' /\ QueueOfAccepted'
      BY <1>1, <1>2 DEF AgentInv, AgentTypes, QueueOfAccepted, Placed
    <2> QED
      BY <2>2, <2>3 DEF AgentInv
  <1>3. CASE inq' = <<>> /\ outq' = <<>>
    <2>1. Len(accepted) \in Nat /\ Len(inq) \in Nat /\ Len(inq') = 0 /\ Len(outq') = 0
      BY <1>3, LenProperties DEF AgentInv, AgentTypes
    <2>2. \A q : Placed(q) => Placed(q)'
      <3>1. \A k \in 1 .. Len(accepted) - Len(inq) : k \in 1 .. Len(accepted) - Len(inq')
        BY <2>1
      <3> QED
        BY <1>1, <3>1 DEF Placed
    <2>3. /\ \A x : Fits(x) => Fits(x)'
          /\ \A x, y : InOrder(x, y) => InOrder(x, y)'
      BY <1>1, <2>2 DEF Fits, Recorded, Earlier, InOrder
    <2>4. AgentTypes'
      BY <1>1, <1>3 DEF AgentInv, AgentTypes
    <2>5. QueueOfAccepted'
      <3>1. cur' # NoRequest => Placed(cur)'
        BY <1>1, <2>2 DEF AgentInv, QueueOfAccepted
      <3> QED
        BY <1>1, <2>1, <3>1 DEF QueueOfAccepted
    <2>6. TextsInOrder'
      BY <1>1, <2>1, <2>3 DEF AgentInv, TextsInOrder
    <2> QED
      BY <2>4, <2>5, <2>6 DEF AgentInv
  <1> QED
    BY <1>1, <1>2, <1>3

LEMMA AgentCorrect == Spec => [](focus = "agent" => AgentInv)
  <1> DEFINE Inv == focus = "agent" => AgentInv
  <1>1. Init => Inv
    BY InitAgent DEF Init
  <1>2. Inv /\ [Next]_vars => Inv'
    <2> SUFFICES ASSUME Inv, [Next]_vars, focus' = "agent" PROVE AgentInv'
      OBVIOUS
    <2>1. focus = "agent"
      BY DEF Next, Agent, Cron, Session, Https, Network, Media, Page, vars
    <2>2. [A!Next]_(A!vars)
      BY <2>1 DEF Next, Agent, Cron, Session, Https, Network, Media, Page, vars, agentVars, A!vars
    <2> QED
      BY <2>1, <2>2, SendKeeps, AgentStepKeeps, DispatcherKeeps, ShutdownKeeps DEF A!Next
  <1> QED
    BY <1>1, <1>2, PTL DEF Spec

(* On every channel but the voice channel the answers come in the order in  *)
(* which the requests were accepted, and the status line of a turn before   *)
(* its answer, however the queues fill up and wherever the shutdown comes   *)
(* (core/agent_loop.c, agent_main.c).                                       *)
THEOREM AnswersKeepOrder == Spec => []AnswersInOrder
  <1>1. (focus = "agent" => AgentInv) => AnswersInOrder
    <2> SUFFICES ASSUME AgentInv, NEW j \in DOMAIN said, NEW k \in DOMAIN said, j < k,
                        Channel[said[j][2]] = Channel[said[k][2]],
                        Channel[said[j][2]] # "voice"
                 PROVE  \/ A!Before(accepted, said[j][2], said[k][2])
                        \/ /\ said[j][2] = said[k][2] /\ said[j] = A!Status(said[j][2])
                           /\ said[k] # A!Status(said[j][2])
      BY DEF AnswersInOrder, A!AnswersInOrder
    <2>1. DOMAIN said = 1 .. Len(said) /\ DOMAIN accepted = 1 .. Len(accepted)
      BY LenProperties DEF AgentInv, AgentTypes
    <2>2. InOrder(said[j], said[k])
      BY <2>1 DEF AgentInv, TextsInOrder
    <2> QED
      BY <2>1, <2>2 DEF InOrder, Earlier, A!Before
  <1> QED
    BY <1>1, AgentCorrect, PTL

(* An answer that a user gets stands in the session history next to its     *)
(* question: nothing is said that the next turn does not know of            *)
(* (dispatch_response, run_voice_stream_path).                              *)
THEOREM SaidStaysRemembered == Spec => []SaidIsRemembered
  <1>1. (focus = "agent" => AgentInv) => SaidIsRemembered
    <2> SUFFICES ASSUME AgentInv, NEW k \in DOMAIN said, said[k][1] = "answer"
                 PROVE  \E h \in DOMAIN history :
                          /\ h > 1
                          /\ history[h] = <<"assistant", said[k][2]>>
                          /\ history[h - 1] = <<"user", said[k][2]>>
      BY DEF SaidIsRemembered, A!SaidIsRemembered
    <2>1. DOMAIN said = 1 .. Len(said) /\ DOMAIN history = 1 .. Len(history)
          /\ Len(history) \in Nat
      BY LenProperties DEF AgentInv, AgentTypes
    <2>2. Recorded(said[k][2])
      BY <2>1 DEF AgentInv, TextsInOrder, Fits
    <2>3. PICK h \in 2 .. Len(history) : history[h] = <<"assistant", said[k][2]>>
                                         /\ history[h - 1] = <<"user", said[k][2]>>
      BY <2>2 DEF Recorded
    <2>4. h \in DOMAIN history /\ h > 1
      BY <2>1, <2>3
    <2> QED
      BY <2>3, <2>4
  <1> QED
    BY <1>1, AgentCorrect, PTL
=============================================================================
