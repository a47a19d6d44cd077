----------------------------- MODULE SpeechCloud -----------------------------
(***************************************************************************)
(* Speech synthesis: a sentence is taken from the cache of synthesised     *)
(* audio, or synthesised over the one connection that is kept open, or     *)
(* over a connection of its own, or by the other service.                  *)
(*   - voice/ws_conn_pool.c, tts_cache.c, voice_tts.c, dashscope_tts.c,    *)
(*     volc_tts_ws.c                                                       *)
(* The pool's lock is held from the connecting to the last audio.          *)
(***************************************************************************)
EXTENDS Naturals, Sequences, SequencesExt

CONSTANTS Cached,       \* speakers that use the cache: the voice channel
          Plain,        \* those that do not: the AI page
          Texts,        \* sentences
          Voices, Default,  \* voices, and the one of the configuration
          Slots,        \* TTS_CACHE_MAX_ENTRIES
          MaxSpoken,    \* sentences spoken, in all
          Faults        \* "connect", "refused", "dead": no connection, an error before any
                        \* audio, a pooled connection that the server closed;
                        \* "cut", "stall": the line fails within the audio

VARIABLES speaker,    \* the speakers
          poolLock,   \* who holds s_pool.lock
          pool,       \* s_pool.tts: its state, its voice, what the server has still to send
          preconnect, \* a thread of ws_conn_pool_preconnect_tts waits for the lock
          poolVoice,  \* s_pool.tts_voice
          ownVoice,   \* s_voice of dashscope_tts.c
          switched,   \* the voice is switched, the cache not yet cleared
          cache,      \* the entries, the least recently used one first
          sentences   \* sentences spoken

vars == <<speaker, poolLock, pool, preconnect, poolVoice, ownVoice, switched, cache, sentences>>

Speakers == Cached \cup Plain
Nobody == "nobody"
Done == <<0, "done">>
Error == <<0, "error">>
Close == <<0, "close">>
Late == <<0, "late">>   \* 30 s pass without a frame
Whole(t) == <<<<t, 1>>, <<t, 2>>>>
Frames == (Texts \X {1, 2}) \cup {Done, Error, Close, Late}
Closed == [state |-> "none", voice |-> Default, wire |-> <<>>]

TypeOK ==
    /\ speaker \in [Speakers ->
            [pc : {"idle", "pool", "pooled", "direct", "directed", "volc", "volced", "store"},
             text : Texts, heard : Seq(Texts \X {1, 2}), wire : Seq(Frames)]]
    /\ poolLock \in Speakers \cup {Nobody}
    /\ pool \in [state : {"none", "ready", "dead"}, voice : Voices, wire : Seq(Frames)]
    /\ preconnect \in BOOLEAN
    /\ poolVoice \in Voices /\ ownVoice \in Voices
    /\ switched \in BOOLEAN
    /\ cache \in Seq([text : Texts, pcm : Seq(Texts \X {1, 2})])
    /\ Len(cache) <= Slots
    /\ sentences \in 0..MaxSpoken

(* What a speaker has heard is gone when its call returns. *)
Resting == [pc |-> "idle", text |-> CHOOSE t \in Texts : TRUE, heard |-> <<>>, wire |-> <<>>]

Init ==
    /\ speaker = [s \in Speakers |-> Resting]
    /\ poolLock = Nobody /\ pool = Closed /\ preconnect = FALSE
    /\ poolVoice = Default /\ ownVoice = Default /\ switched = FALSE
    /\ cache = <<>> /\ sentences = 0

(* What a server may send for a sentence. *)
Answers(t) ==
    {Whole(t) \o <<Done>>}
    \cup (IF "refused" \in Faults THEN {<<Error>>} ELSE {})
    \cup (IF "cut" \in Faults THEN {<<<<t, 1>>, Error>>, <<<<t, 1>>, Close>>} ELSE {})
    \cup (IF "stall" \in Faults THEN {<<<<t, 1>>, Late, <<t, 2>>, Done>>} ELSE {})

voiceVars == <<poolVoice, ownVoice, switched>>
At(s, pc) == speaker[s].pc = pc
Go(s, pc) == speaker' = [speaker EXCEPT ![s].pc = pc, ![s].wire = <<>>]
Hear(s, part, wire) == speaker' = [speaker EXCEPT ![s].heard = Append(@, part), ![s].wire = wire]

-----------------------------------------------------------------------------
(* The cache.  An entry that is found becomes the most recently used one;  *)
(* one that is stored takes a free slot or that of the least recently used *)
(* one, and a text that is there already keeps its audio.                  *)
EntryOf(t) == {i \in 1..Len(cache) : cache[i].text = t}

Evicted == IF Len(cache) = Slots THEN Tail(cache) ELSE cache

(* A store that evicts nothing. *)
Stored_Mut(t, pcm) ==
    IF EntryOf(t) # {} THEN cache ELSE Append(cache, [text |-> t, pcm |-> pcm])

Stored(t, pcm) ==
    IF EntryOf(t) # {} THEN cache
    ELSE Append(Evicted, [text |-> t, pcm |-> pcm])

(* A sentence is spoken: from the cache, if it is there.  Before, a        *)
(* pooled connection that was idle too long is closed, which waits for the *)
(* lock; and the pipeline has a connection made ahead.                     *)
Speak(s, t) ==
    /\ At(s, "idle") /\ sentences < MaxSpoken
    /\ sentences' = sentences + 1
    /\ IF s \in Cached /\ EntryOf(t) # {}
       THEN /\ cache' = LET i == CHOOSE j \in EntryOf(t) : TRUE IN Append(RemoveAt(cache, i), cache[i])
            /\ UNCHANGED <<speaker, preconnect>>
       ELSE /\ speaker' = [speaker EXCEPT ![s] = [pc |-> "pool", text |-> t, heard |-> <<>>,
                                                  wire |-> <<>>]]
            /\ \/ UNCHANGED preconnect
               \/ s \in Cached /\ pool.state = "none" /\ preconnect' = TRUE
            /\ UNCHANGED cache
    /\ UNCHANGED <<poolLock, pool, voiceVars>>

IdleCheck ==
    /\ poolLock = Nobody /\ pool.state # "none"
    /\ \E s \in Cached : At(s, "idle")
    /\ pool' = Closed
    /\ UNCHANGED <<speaker, poolLock, preconnect, voiceVars, cache, sentences>>

(* connect_tts_pool: a connection is made and told the voice.              *)
Connected == [state |-> "ready", voice |-> poolVoice, wire |-> <<>>]

Preconnect ==
    /\ preconnect /\ poolLock = Nobody
    /\ preconnect' = FALSE
    /\ \/ pool' = IF pool.state = "none" THEN Connected ELSE pool
       \/ "connect" \in Faults /\ UNCHANGED pool
    /\ UNCHANGED <<speaker, poolLock, voiceVars, cache, sentences>>

(* ws_conn_pool_tts_synthesize_stream: the lock, the connection and the    *)
(* text.  To a closed connection the text cannot be sent, or the closing   *)
(* is what is received: it is destroyed, and the next way is tried.        *)
Acquire(s) ==
    /\ At(s, "pool") /\ poolLock = Nobody
    /\ \/ /\ pool.state # "dead"
          /\ \E a \in Answers(speaker[s].text) :
               pool' = [IF pool.state = "ready" THEN pool ELSE Connected EXCEPT !.wire = @ \o a]
          /\ poolLock' = s
          /\ Go(s, "pooled")
       \/ /\ pool.state = "dead" \/ (pool.state = "none" /\ "connect" \in Faults)
          /\ pool' = Closed
          /\ Go(s, "direct")
          /\ UNCHANGED poolLock
    /\ UNCHANGED <<preconnect, voiceVars, cache, sentences>>

(* The lock stays taken when the service refuses. *)
PoolFailed_Mut(s) == pool' = Closed /\ Go(s, "direct") /\ UNCHANGED poolLock

(* Without audio the connection is destroyed, and the next way is tried.   *)
PoolFailed(s) == pool' = Closed /\ Go(s, "direct") /\ poolLock' = Nobody

(* A frame is received.  After audio, a line that failed counts as the     *)
(* end, and the connection is kept.                                        *)
PoolDone(s, after) ==
    IF speaker[s].heard = <<>> THEN PoolFailed(s)
    ELSE pool' = after /\ Go(s, "store") /\ poolLock' = Nobody

PoolReceive(s) ==
    /\ At(s, "pooled")
    /\ LET frame == Head(pool.wire)
           rest == [pool EXCEPT !.wire = Tail(@)]
       IN CASE frame = Error -> PoolFailed(s)
            [] frame = Close -> PoolDone(s, [rest EXCEPT !.state = "dead"])
            [] frame \in {Done, Late} -> PoolDone(s, rest)
            [] OTHER -> pool' = rest /\ Hear(s, frame, <<>>) /\ UNCHANGED poolLock
    /\ UNCHANGED <<preconnect, voiceVars, cache, sentences>>

(* The other two ways: a connection for this sentence.  The first reads    *)
(* the voice from the configuration, whatever it was set to.               *)
NextWay(way) == IF way = "direct" THEN "volc" ELSE "store"
Receiving(way) == IF way = "direct" THEN "directed" ELSE "volced"

Open(s, way) ==
    /\ At(s, way)
    /\ \/ \E a \in Answers(speaker[s].text) :
            speaker' = [speaker EXCEPT ![s].pc = Receiving(way), ![s].wire = a]
       \/ "connect" \in Faults /\ Go(s, NextWay(way))
    /\ ownVoice' = IF way = "direct" THEN Default ELSE ownVoice
    /\ UNCHANGED <<poolLock, pool, preconnect, poolVoice, switched, cache, sentences>>

Receive(s, way) ==
    /\ At(s, Receiving(way))
    /\ LET frame == Head(speaker[s].wire)
       IN CASE frame = Error -> Go(s, NextWay(way))
            [] frame \in {Done, Close, Late} -> Go(s, "store")
            [] OTHER -> Hear(s, frame, Tail(speaker[s].wire))
    /\ UNCHANGED <<poolLock, pool, preconnect, voiceVars, cache, sentences>>

(* What was heard is kept under the sentence.                              *)
Store(s) ==
    /\ At(s, "store")
    /\ speaker' = [speaker EXCEPT ![s] = Resting]
    /\ cache' = IF s \in Cached /\ speaker[s].heard # <<>>
                THEN Stored(speaker[s].text, speaker[s].heard) ELSE cache
    /\ UNCHANGED <<poolLock, pool, preconnect, voiceVars, sentences>>

-----------------------------------------------------------------------------
(* dashscope_tts_set_voice, when the language changes: the voice, that of  *)
(* the pool, whose connection is destroyed, and then the cache.            *)
SetVoice(v) ==
    /\ ~switched /\ v # ownVoice
    /\ poolLock = Nobody
    /\ ownVoice' = v /\ poolVoice' = v
    /\ pool' = Closed
    /\ switched' = TRUE
    /\ UNCHANGED <<speaker, poolLock, preconnect, cache, sentences>>

ClearCache ==
    /\ switched
    /\ switched' = FALSE
    /\ cache' = <<>>
    /\ UNCHANGED <<speaker, poolLock, pool, preconnect, poolVoice, ownVoice, sentences>>

(* The server closes a connection that nobody uses.                        *)
ServerCloses ==
    /\ "dead" \in Faults
    /\ pool.state = "ready" /\ poolLock = Nobody
    /\ pool' = [pool EXCEPT !.state = "dead"]
    /\ UNCHANGED <<speaker, poolLock, preconnect, voiceVars, cache, sentences>>

SpeakerStep(s) ==
    \/ Acquire(s) \/ PoolReceive(s) \/ Store(s)
    \/ \E way \in {"direct", "volc"} : Open(s, way) \/ Receive(s, way)

Next ==
    \/ \E s \in Speakers : SpeakerStep(s) \/ \E t \in Texts : Speak(s, t)
    \/ IdleCheck \/ Preconnect \/ ServerCloses \/ ClearCache
    \/ \E v \in Voices : SetVoice(v)

Spec ==
    /\ Init /\ [][Next]_vars
    /\ \A s \in Speakers : SF_vars(SpeakerStep(s))

-----------------------------------------------------------------------------
(* A sentence is heard whole and once, or not at all, and a cached one is  *)
(* the audio of its text: speakers that share the connection do not get    *)
(* each other's audio.                                                     *)
SpokenWhole ==
    /\ \A s \in Speakers :
         At(s, "store") => speaker[s].heard \in {<<>>, Whole(speaker[s].text)}
    /\ \A i \in 1..Len(cache) : cache[i].pcm = Whole(cache[i].text)

(* The pooled connection speaks with the voice that is set.                *)
VoiceOfPool == pool.state = "ready" => pool.voice = poolVoice

(* Whoever speaks is done some time.                                       *)
Waiting == \E s \in Speakers : ~At(s, "idle")
SpeechEnds == Waiting ~> ~Waiting
=============================================================================
