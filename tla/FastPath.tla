------------------------------- MODULE FastPath -------------------------------
(***************************************************************************)
(* What is answered without the LLM: voice_assistant.c looks a spoken text *)
(* over for words of an order (Layer 1) and hands it to agent_loop.c,      *)
(* which looks again (Layer 2), calls the tools and words the reply.  In a *)
(* conversation what is said goes to the group.  A text is the set of the  *)
(* word lists it has a word of, with what it has in quotes and what        *)
(* follows the words of the order; the tools of Lark are one action per    *)
(* request.  Memory is got; that it runs low is a fault.                   *)
(***************************************************************************)
EXTENDS Naturals, Sequences, FiniteSets, FiniteSetsExt, SequencesExt

CONSTANTS
    Utterances, Letters, MaxTexts, \* what may be said, and sent by other channels; how many of both
    InboxMax,                      \* places of the inbound queue
    Within, Similar,               \* pairs of which one holds the other; that are alike else
    Library, Drafts, MaxEdits,     \* the documents, newest first, and those others may add
    ListMax, MaxRead, MaxHits,     \* documents in 4096 bytes; MAX_DOCS_TO_READ; 3
    Groups, MaxGroups, People,     \* the groups of the bot; MSG_TODAY_MAX_CHATS; their members
    Posts, Now, PageSize, MaxKept, \* the day's messages; the time; 50; MAX_MSG_ENTRIES
    Faults                         \* which requests fail, and what comes late

VARIABLES
    flag, begun,         \* s_feishu_fast_path, s_fast_path_tts_started
    mode, talk, leaving, \* the conversation: whether it is on, its group, whether it is left
    inbox, pc, cur, want,\* the queue; where the agent is, with which text and order
    members, strange,    \* the group whose members are cached; not for the conversation
    docs, edits,         \* the documents
    listing, at, asked, bodies, hits, \* a search: the list, place in it, what was read, found
    group, cursor, kept, cut,         \* today's messages: place, what matters; groups left early
    song, sent, reply, texts          \* what plays; what the group was sent; the reply; texts

agentVars == <<pc, cur, want, reply>>
searchVars == <<listing, at, asked, bodies, hits>>
dayVars == <<group, cursor, kept, cut>>
worldVars == <<docs, edits, song, sent, texts>>
talkVars == <<mode, talk, leaving>>
memberVars == <<members, strange>>
voiceVars == <<flag, begun, talkVars, inbox>>
vars == <<voiceVars, agentVars, memberVars, searchVars, dayVars, worldVars>>

NoText == [words |-> {}, quoted |-> "", rest |-> "", voice |-> FALSE]

(* A title or a keyword is what a text has in quotes, else what follows.   *)
Named(t) == IF t.quoted # "" THEN t.quoted ELSE t.rest
Topic == Named(cur)

----------------------------------------------------------------------------
(* The orders a text may hold.  Both layers have the same lists of words,  *)
(* the second looks at them in another order.                              *)

Has(t, lists) == t.words \cap lists # {}
Creates(t) == Has(t, {"create"}) /\ Has(t, {"lark", "doc", "document"})
Queries(t) == Has(t, {"query", "open"}) /\ Has(t, {"lark", "doc", "document"})
Searches(t) == Has(t, {"search"}) /\ Has(t, {"lark", "doc", "content"})
Converses(t) == Has(t, {"converse"}) \/ (Has(t, {"start", "open"}) /\ Has(t, {"chat mode"}))
Exits(t) == Has(t, {"exit"}) /\ Has(t, {"lark", "chat mode"})
Fits(t, order) ==
    CASE order = "create" -> Creates(t) [] order = "query" -> Queries(t)
      [] order = "search" -> Searches(t) [] order = "converse" -> Converses(t)
      [] order = "exit" -> Exits(t) [] order = "play" -> Has(t, {"play"}) /\ t.rest # ""
      [] OTHER -> Has(t, {order})
FirstOf(t, orders) ==
    LET k == SelectInSeq(orders, LAMBDA o : Fits(t, o)) IN IF k = 0 THEN "none" ELSE orders[k]

Layer1(t) == FirstOf(t, <<"create", "query", "search", "today", "converse">>)

(* The table of device questions, the skills and the weather ask one tool. *)
Layer2(t) == FirstOf(t, <<"tool", "play", "exit", "converse", "create", "query", "search",
                          "today">>)

(* handle_slash_command answers most commands, a reminder if it has its    *)
(* seconds; it rewrites a translation, into a request that has the word    *)
(* "content", and the daily report.                                        *)
Rewritten(t) ==
    IF Has(t, {"/translate"}) THEN [t EXCEPT !.words = @ \cup {"content"}]
    ELSE IF Has(t, {"/daily"}) THEN [t EXCEPT !.words = {"/daily"}] ELSE t
Order(t) == IF Has(t, {"/command"}) THEN "tool"
            ELSE IF Has(Rewritten(t), {"injection"}) THEN "refuse" ELSE Layer2(Rewritten(t))

Init ==
    /\ flag = FALSE /\ begun = FALSE /\ inbox = <<>>
    /\ mode = FALSE /\ talk = "" /\ leaving = FALSE
    /\ pc = "idle" /\ cur = NoText /\ want = "none" /\ reply = "none"
    /\ members = "none" /\ strange = TRUE /\ docs = Library /\ edits = 0
    /\ listing = <<>> /\ at = 0 /\ asked = {} /\ bodies = <<>> /\ hits = <<>>
    /\ group = 0 /\ cursor = 0 /\ kept = <<>> /\ cut = {}
    /\ song = "" /\ sent = <<>> /\ texts = 0

----------------------------------------------------------------------------
(* Hearing a text: on_dashscope_vad_event, unless a fast path is under way *)
(* or the board speaks, whose echo a text may be.                          *)

Speaking == pc = "speaking"
Push(t) == inbox' = IF Len(inbox) < InboxMax THEN Append(inbox, t) ELSE inbox

(* A text of a conversation goes to its group, with a mention if it names  *)
(* somebody who is among the cached members; what an earlier summary left  *)
(* is cached at first.  A name that is cached counts before one like it.   *)
First(seq, Test(_)) == LET k == SelectInSeq(seq, Test) IN IF k = 0 THEN "" ELSE seq[k]
Member(t) ==
    LET cached == IF members = "none" THEN <<>> ELSE People[members]
        same == First(cached, LAMBDA p : p = t.rest)
        like == First(cached, LAMBDA p : {<<p, t.rest>>, <<t.rest, p>>} \cap Within # {})
    IN IF ~Has(t, {"mention"}) THEN "" ELSE IF same # "" THEN same ELSE like
SendToGroup(t) ==
    /\ sent' = Append(sent, [to |-> talk, member |-> Member(t), strange |-> strange])
    /\ UNCHANGED voiceVars
HandOver(t) ==
    /\ Layer1(t) # "none" /\ flag' = TRUE /\ begun' = FALSE /\ Push(t)
    /\ UNCHANGED <<talkVars, sent>>

(* voice_assistant_exit_feishu_conversation leaves the end to the main     *)
(* thread, whether there is a conversation or not.                         *)
LeaveTalk == talk' = "" /\ leaving' = TRUE /\ UNCHANGED mode
Leave(t) ==
    /\ Layer1(t) = "none" /\ mode /\ LeaveTalk
    /\ Push(t) /\ UNCHANGED <<flag, begun, sent>>
Hear(t) ==
    /\ ~flag /\ ~Speaking /\ texts < MaxTexts /\ texts' = texts + 1
    /\ IF mode /\ ~Exits(t) THEN SendToGroup(t)
       ELSE ~Has(t, {"meeting"}) /\ (HandOver(t) \/ Leave(t))
    /\ UNCHANGED <<agentVars, memberVars, searchVars, dayVars, docs, edits, song>>

(* Other channels push what they receive.                                  *)
Receive(t) ==
    /\ texts < MaxTexts /\ texts' = texts + 1 /\ Push(t)
    /\ UNCHANGED <<flag, begun, talkVars, agentVars, memberVars, searchVars, dayVars, docs, edits,
                   song, sent>>

(* The main thread sees that something is spoken, and ends the fast path   *)
(* when that is over, or after 90 s without; it ends a conversation 3 s    *)
(* after the farewell.                                                     *)
EndFastPath == flag' = FALSE /\ begun' = FALSE
MainRest == UNCHANGED <<inbox, agentVars, memberVars, searchVars, dayVars, worldVars>>
Notice ==
    /\ flag /\ Speaking /\ ~begun /\ begun' = TRUE
    /\ UNCHANGED <<flag, talkVars>> /\ MainRest
Release == flag /\ begun /\ ~Speaking /\ EndFastPath /\ UNCHANGED talkVars /\ MainRest
TimeOut == flag /\ ~Speaking /\ EndFastPath /\ UNCHANGED talkVars /\ MainRest
Left ==
    /\ leaving /\ ~Speaking /\ leaving' = FALSE /\ mode' = FALSE
    /\ UNCHANGED <<flag, begun, talk>> /\ MainRest

(* Others write and delete documents; the newest is listed first.  A bound *)
(* keeps this to the time after a list: before, it is another Library.     *)
Edit ==
    /\ listing # <<>> /\ edits < MaxEdits /\ edits' = edits + 1
    /\ \/ \E d \in Drafts : docs' = <<d>> \o docs
       \/ \E i \in 1..Len(docs) : docs' = RemoveAt(docs, i)
    /\ UNCHANGED <<voiceVars, agentVars, memberVars, searchVars, dayVars, song, sent, texts>>

----------------------------------------------------------------------------
(* The agent takes a text; what no order fits is left to the LLM, which    *)
(* ends the fast path of a spoken one.                                     *)

Reply(r) == reply' = r /\ pc' = "speak" /\ UNCHANGED <<cur, want>>
Goto(place) == pc' = place /\ UNCHANGED <<cur, want, reply>>
Begins == [tool |-> "tool", play |-> "song", exit |-> "exit", converse |-> "find",
           create |-> "create", query |-> "list", search |-> "list", today |-> "groups",
           refuse |-> "speak", none |-> "speak"]
Take ==
    /\ pc = "idle" /\ inbox # <<>>
    /\ cur' = Head(inbox) /\ inbox' = Tail(inbox) /\ want' = Order(cur')
    /\ pc' = IF want' = "search" /\ Named(cur') = "" THEN "speak" ELSE Begins[want']
    /\ reply' = CASE want' = "none" -> "llm" [] want' = "refuse" -> "refused"
                  [] want' = "search" /\ Named(cur') = "" -> "which?" [] OTHER -> "none"
    /\ IF want' = "none" /\ cur'.voice THEN EndFastPath ELSE UNCHANGED <<flag, begun>>
    /\ listing' = <<>> /\ at' = 0 /\ asked' = {} /\ bodies' = <<>> /\ hits' = <<>>
    /\ group' = 0 /\ cursor' = 0 /\ kept' = <<>> /\ cut' = {}
    /\ UNCHANGED <<talkVars, memberVars, worldVars>>

(* With too little memory a text is dropped, and its channel told so.      *)
Drop ==
    /\ "memory" \in Faults /\ pc = "idle" /\ inbox # <<>> /\ inbox' = Tail(inbox)
    /\ UNCHANGED <<flag, begun, talkVars, agentVars, memberVars, searchVars, dayVars, worldVars>>

(* The reply to a spoken text is spoken, which may fail; another is pushed *)
(* to the outbound queue.                                                  *)
Done == pc' = "idle" /\ cur' = NoText /\ want' = "none" /\ reply' = "none"
Speak ==
    /\ pc = "speak"
    /\ \/ cur.voice /\ Goto("speaking")
       \/ (cur.voice => "speech" \in Faults) /\ Done
    /\ UNCHANGED <<voiceVars, memberVars, searchVars, dayVars, worldVars>>
Spoken ==
    /\ Speaking /\ Done
    /\ UNCHANGED <<voiceVars, memberVars, searchVars, dayVars, worldVars>>

AskTool ==
    /\ pc = "tool" /\ Reply("told")
    /\ UNCHANGED <<voiceVars, memberVars, searchVars, dayVars, worldVars>>

(* music_search, and music_play of the first song that was found.  A tool  *)
(* that is disabled says "Error", which is not the "error" looked for.     *)
FindSong ==
    /\ pc = "song"
    /\ Goto("play") \/ Reply("no song")
    /\ UNCHANGED <<voiceVars, memberVars, searchVars, dayVars, worldVars>>
Play ==
    /\ pc = "play"
    /\ \/ song' = cur.rest /\ Reply("playing")
       \/ UNCHANGED song /\ Reply("not played")
       \/ "disabled" \in Faults /\ UNCHANGED song /\ Reply("playing")
    /\ UNCHANGED <<voiceVars, memberVars, searchVars, dayVars, docs, edits, sent, texts>>

----------------------------------------------------------------------------
(* Conversations: entered with the first group and its members, left for   *)
(* the main thread to end.                                                 *)

Exit ==
    /\ pc = "exit" /\ Reply("left") /\ LeaveTalk
    /\ UNCHANGED <<flag, begun, inbox, memberVars, searchVars, dayVars, worldVars>>

FindGroup ==
    /\ pc \in {"find", "find again"}
    /\ \/ group' = 1 /\ Goto("members")
       \/ "groups" \in Faults /\ UNCHANGED group
          /\ IF pc = "find" THEN Goto("find again") ELSE Reply("no group")
    /\ UNCHANGED <<voiceVars, memberVars, searchVars, cursor, kept, cut, worldVars>>

(* The members of the group are cached, unless the request fails.          *)
Scanned == IF want = "today" THEN Min({MaxGroups, Len(Groups)}) ELSE Len(Groups)
CacheMembers ==
    /\ pc = "members" /\ group <= Scanned
    /\ \/ members' = Groups[group] /\ strange' = (want = "today")
       \/ "members" \in Faults /\ UNCHANGED members /\ strange' = TRUE
    /\ Goto(IF want = "today" THEN "page" ELSE "enter")
    /\ UNCHANGED <<voiceVars, searchVars, dayVars, worldVars>>

Enter ==
    /\ pc = "enter" /\ Reply("entered") /\ mode' = TRUE /\ talk' = Groups[group] /\ EndFastPath
    /\ UNCHANGED <<leaving, inbox, memberVars, searchVars, dayVars, worldVars>>

----------------------------------------------------------------------------
(* Documents: made under the title of the text; one is read whose title is *)
(* like it; or the contents are searched, in the order of the list.        *)

Create ==
    /\ pc = "create"
    /\ LET title == IF Topic = "" THEN "untitled" ELSE Topic IN
       \/ /\ docs' = <<[name |-> title, docx |-> TRUE, body |-> {}]>> \o docs
          /\ Reply("created") \/ ("answer" \in Faults /\ Reply("not created"))
       \/ UNCHANGED docs /\ Reply("not created")
    /\ UNCHANGED <<voiceVars, memberVars, searchVars, dayVars, edits, song, sent, texts>>

Holds(x, t) == x = t \/ <<x, t>> \in Within
Alike(x, t) == Holds(x, t) \/ <<x, t>> \in Similar
Titled(i) == /\ listing[i].docx
             /\ IF Topic = "" THEN i = 1 ELSE Alike(listing[i].name, Topic)
Found(body) == \E word \in body : Alike(word, Topic)

(* A list that is cut at the end of the buffer is no list.                 *)
ListDocs ==
    /\ pc = "list"
    /\ \/ listing' = IF Len(docs) <= ListMax THEN docs ELSE <<>>
       \/ "list" \in Faults /\ listing' = <<>>
    /\ bodies' = [i \in 1..Len(listing') |-> {}]
    /\ Goto(IF want = "search" THEN "look" ELSE "pick")
    /\ UNCHANGED <<voiceVars, memberVars, at, asked, hits, dayVars, worldVars>>
Pick ==
    LET titled == {i \in DOMAIN listing : Titled(i)}
    IN /\ pc = "pick"
       /\ IF titled # {} THEN at' = Min(titled) /\ Goto("read")
          ELSE at' = 0 /\ IF Topic = "" THEN Reply("missing") ELSE Goto("look")
       /\ UNCHANGED <<voiceVars, memberVars, listing, asked, bodies, hits, dayVars, worldVars>>

(* A document that is gone, or that has the word itself, is an error.      *)
Contents(d) == {IF d \in Range(docs) THEN d.body ELSE {"Error"}}
                 \cup {{"Error"} : f \in Faults \cap {"read"}}
ReadDoc ==
    /\ pc = "read"
    /\ \E body \in Contents(listing[at]) :
         Reply(IF body = {} \/ "Error" \in body THEN "unreadable" ELSE "content")
    /\ UNCHANGED <<voiceVars, memberVars, searchVars, dayVars, worldVars>>

SameTitle(d) == want = "search" /\ Holds(d.name, Topic)
Look ==
    LET i == at + 1
        d == listing[i]
        Skip == UNCHANGED <<asked, bodies, hits>>
        Hit == hits' = Append(hits, i) /\ UNCHANGED <<asked, bodies>>
        ReadIt == \E body \in Contents(d) :
            /\ asked' = asked \cup {i} /\ bodies' = [bodies EXCEPT ![i] = body]
            /\ hits' = IF "Error" \notin body /\ Found(body) THEN Append(hits, i) ELSE hits
    IN /\ pc = "look" /\ at < Len(listing) /\ Len(hits) < MaxHits
       /\ IF ~d.docx THEN Skip ELSE IF SameTitle(d) THEN Hit
          ELSE IF want = "search" /\ Cardinality(asked) >= MaxRead THEN Skip ELSE ReadIt
       /\ at' = i
       /\ UNCHANGED <<voiceVars, agentVars, memberVars, listing, dayVars, worldVars>>
Looked ==
    /\ pc = "look" /\ (at = Len(listing) \/ Len(hits) = MaxHits)
    /\ Reply(IF hits = <<>> THEN "missing" ELSE "found")
    /\ UNCHANGED <<voiceVars, memberVars, searchVars, dayVars, worldVars>>

----------------------------------------------------------------------------
(* Today's messages: of each group pages of the messages from the cursor   *)
(* on, of which the important ones are kept while there is room.           *)

Points == [verb |-> 30, question |-> 25, urgent |-> 25, issue |-> 20, decision |-> 20,
           status |-> 15, work |-> 15, meeting |-> 15, time |-> 15, mention |-> 10]
Important(post) == /\ "noise" \notin post.words
                   /\ MapThenSumSet(LAMBDA w : Points[w], post.words) >= 30

FetchGroups ==
    /\ pc = "groups"
    /\ \/ group' = 1 /\ Goto("members")
       \/ "groups" \in Faults /\ UNCHANGED group /\ Reply("error")
    /\ UNCHANGED <<voiceVars, memberVars, searchVars, cursor, kept, cut, worldVars>>

Posted == Posts[Groups[group]]
PageFrom(t) ==
    LET later == SelectSeq([i \in 1..Len(Posted) |-> i], LAMBDA i : Posted[i].at \in t..Now)
    IN SubSeq(later, 1, Min({PageSize, Len(later)}))
Kept(page) == SelectSeq(page, LAMBDA i : Important(Posted[i]))
Processed(page) ==
    Max({n \in 0..Len(page) : \A j \in 1..n :
           Len(kept) + Len(Kept(SubSeq(page, 1, j - 1))) < MaxKept})
(* The next page begins a second later: what the room, or a page that ends *)
(* within a second, leaves of it is not read.                              *)
Unread(page, n) ==
    {i \in DOMAIN Posted \ Range(SubSeq(page, 1, n)) :
       Posted[i].at = Posted[page[n]].at \/ i \in Range(page)}
NextGroup(missed) ==
    /\ group' = group + 1 /\ cursor' = 0 /\ cut' = cut \cup missed /\ UNCHANGED kept
    /\ Goto("members")
FetchPage ==
    LET page == PageFrom(cursor)
        n == Processed(page)
    IN /\ pc = "page"
       /\ \/ cursor < Now /\ "page" \in Faults /\ NextGroup({group})
          \/ (cursor >= Now \/ page = <<>>) /\ NextGroup({})
          \/ cursor < Now /\ page # <<>> /\ n = 0 /\ NextGroup({group})
          \/ /\ cursor < Now /\ n > 0
             /\ kept' = kept \o [k \in 1..Len(Kept(SubSeq(page, 1, n))) |->
                                   <<group, Kept(SubSeq(page, 1, n))[k]>>]
             /\ cursor' = Posted[page[n]].at + 1
             /\ cut' = cut \cup {group : i \in Unread(page, n)}
             /\ UNCHANGED <<pc, cur, want, reply, group>>
       /\ UNCHANGED <<voiceVars, memberVars, searchVars, worldVars>>
Listed ==
    /\ pc = "members" /\ group > Scanned
    /\ Reply(IF kept = <<>> THEN "nothing" ELSE "today")
    /\ UNCHANGED <<voiceVars, memberVars, searchVars, dayVars, worldVars>>

----------------------------------------------------------------------------
AgentStep == \/ Take \/ Drop \/ Speak \/ Spoken \/ AskTool \/ FindSong \/ Play \/ Exit
             \/ FindGroup \/ CacheMembers \/ Enter \/ Create \/ ListDocs \/ Pick \/ ReadDoc
             \/ Look \/ Looked \/ FetchGroups \/ FetchPage \/ Listed
MainStep == Release \/ TimeOut \/ Left
Next == \/ \E t \in Utterances : Hear(t)
        \/ \E t \in Letters : Receive(t)
        \/ Notice \/ MainStep \/ Edit \/ AgentStep

----------------------------------------------------------------------------
TypeOK ==
    /\ {flag, begun, mode, leaving, strange} \subseteq BOOLEAN /\ (begun => flag)
    /\ talk \in Range(Groups) \cup {""} /\ Len(inbox) <= InboxMax
    /\ pc \in {"idle", "speak", "speaking", "page", "look", "pick", "read", "members", "enter",
               "play", "find again"} \cup Range(Begins)
    /\ members \in Range(Groups) \cup {"none"}
    /\ at \in 0..Len(listing) /\ asked \subseteq DOMAIN bodies /\ Len(hits) <= MaxHits
    /\ group \in 0..(Len(Groups) + 1) /\ cursor \in 0..(Now + 1) /\ Len(kept) <= MaxKept
    /\ cut \subseteq DOMAIN Groups

Waiting == pc # "idle" \/ inbox # <<>> \/ flag \/ leaving

(* A spoken text that Layer 1 took from the cloud has an order that Layer 2 *)
(* finds too: it is never left to the LLM.                                  *)
HandedOverIsAnswered == (pc = "speak" /\ cur.voice) => reply # "llm"

(* Who is mentioned in a group is a member of that group, unless the        *)
(* request for its members failed or a summary has cached others since.     *)
MentionsReachMembers ==
    \A s \in Range(sent) :
      (s.to # "" /\ s.member # "" /\ ~s.strange) => s.member \in Range(People[s.to])

(* A search finds what a look at all documents would: those of the title    *)
(* and the first of those that can be read which have the word, no more     *)
(* than MaxHits, in the order of the list.                                  *)
SearchIsWhole ==
    LET Mine(i) == listing[i].docx /\ SameTitle(listing[i])
        Readable(i) == /\ listing[i].docx /\ ~Mine(i)
                       /\ want = "search" =>
                            Cardinality({j \in 1..(i - 1) : listing[j].docx /\ ~Mine(j)}) < MaxRead
        Hit(i) == Mine(i) \/ (Readable(i) /\ "Error" \notin bodies[i] /\ Found(bodies[i]))
        all == SelectSeq([i \in 1..Len(listing) |-> i], Hit)
    IN (pc = "speak" /\ reply \in {"found", "missing"}) =>
         /\ hits = SubSeq(all, 1, Min({MaxHits, Len(all)}))
         /\ Len(hits) < MaxHits /\ (want = "search" \/ Topic # "")
              => \A i \in DOMAIN listing : Readable(i) => i \in asked

(* The summary has the messages in order, none twice, and of each group     *)
(* every important one of the day, unless a page of it failed or ended      *)
(* within a second, or the room was full.                                   *)
TodayIsWhole ==
    (pc = "speak" /\ reply \in {"today", "nothing"}) =>
      /\ \A j, k \in DOMAIN kept : j < k =>
           kept[j][1] < kept[k][1] \/ (kept[j][1] = kept[k][1] /\ kept[j][2] < kept[k][2])
      /\ \A g \in 1..Scanned \ cut : \A i \in DOMAIN Posts[Groups[g]] :
           LET post == Posts[Groups[g]][i]
           IN Important(post) /\ post.at < Now => <<g, i>> \in Range(kept)
=============================================================================
