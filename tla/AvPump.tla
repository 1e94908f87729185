------------------------------- MODULE AvPump -------------------------------
(***************************************************************************)
(* How pictures and sound travel through internal/dataplane: ffmpeg's two  *)
(* pipes, the reader goroutines with their channels and the frame pool,    *)
(* the prebuffer, and the tick loop with its audio pairing (avPairer) and  *)
(* delay ring (audioDelayRing).                                            *)
(*                                                                         *)
(* Frame k and chunk k of a session belong together; both are modelled by  *)
(* the number k.  ffmpeg has one muxer: it writes to one pipe at a time and*)
(* waits when nobody reads, so a stream whose reader is stuck holds up the *)
(* other one.                                                              *)
(***************************************************************************)
EXTENDS Naturals, Sequences, SequencesExt

CONSTANTS
    VideoChCap,       \* videoChCap
    AudioChCap,       \* audioChCap
    PoolSlots,        \* framePoolSlots
    PrebufferTarget,  \* envPrebufferFields
    AudioDelay,       \* envAudioDelayFields
    Lead,             \* how many items ffmpeg may write one stream ahead of the other
    Frames            \* how many frames and chunks the session has

ASSUME PumpAssumption ==
    /\ {VideoChCap, AudioChCap, PoolSlots, PrebufferTarget, AudioDelay, Lead, Frames} \subseteq Nat
    /\ PrebufferTarget <= VideoChCap /\ PoolSlots = VideoChCap + 2

VARIABLES
    phase,    \* of Run: "prebuffer", "ticking" or "done"
    mux,      \* the pipe ffmpeg is writing to: "none", "video" or "audio"
    made,     \* per stream: how much ffmpeg has written
    hand,     \* per stream: what the reader goroutine is about to queue, or 0
    queue,    \* per stream: videoCh and audioCh
    pre,      \* per stream: videoPrebuffer and audioPrebuffer
    free,     \* buffers in the frame pool
    exited,   \* proc.Done is closed
    ready,    \* audioReady, from the ACKs
    debt,     \* avPairer.debt
    ring,     \* audioDelayRing
    shown,    \* the last frame sent
    heard     \* the last chunk sent

pumpVars == <<phase, mux, made, hand, queue, pre, free, exited, ready, debt, ring, shown, heard>>

Streams  == {"video", "audio"}
Cap(s)   == IF s = "video" THEN VideoChCap ELSE AudioChCap
Other(s) == IF s = "video" THEN "audio" ELSE "video"

PumpEmpty ==
    /\ mux = "none" /\ ready = FALSE
    /\ made = [s \in Streams |-> 0] /\ hand = [s \in Streams |-> 0]
    /\ queue = [s \in Streams |-> <<>>] /\ pre = [s \in Streams |-> <<>>]
    /\ free = PoolSlots /\ debt = 0 /\ ring = <<>> /\ shown = 0 /\ heard = 0

PumpInit == PumpEmpty /\ phase = "prebuffer" /\ exited = FALSE
PumpOff  == PumpEmpty /\ phase = "done" /\ exited = TRUE

-----------------------------------------------------------------------------
(* ffmpeg and the reader goroutines.                                       *)

(* The muxer turns to a stream: what it has written of the two stays within*)
(* Lead of each other.                                                     *)
MuxTurns(s) ==
    /\ mux = "none" /\ ~exited
    /\ made[s] < Frames /\ (made[s] < made[Other(s)] + Lead \/ made[Other(s)] = Frames)
    /\ mux' = s
    /\ UNCHANGED <<phase, made, hand, queue, pre, free, exited, ready, debt, ring, shown, heard>>

(* The reader takes it: for a frame it needs a buffer of the pool.         *)
Read(s) ==
    /\ mux = s /\ hand[s] = 0 /\ phase # "done" /\ ~exited
    /\ s = "video" => free > 0
    /\ free' = IF s = "video" THEN free - 1 ELSE free
    /\ mux' = "none"
    /\ made' = [made EXCEPT ![s] = @ + 1]
    /\ hand' = [hand EXCEPT ![s] = made'[s]]
    /\ UNCHANGED <<phase, queue, pre, exited, ready, debt, ring, shown, heard>>

Enqueue(s) ==
    /\ hand[s] # 0 /\ Len(queue[s]) < Cap(s) /\ phase # "done"
    /\ queue' = [queue EXCEPT ![s] = Append(@, hand[s])]
    /\ hand' = [hand EXCEPT ![s] = 0]
    /\ UNCHANGED <<phase, mux, made, pre, free, exited, ready, debt, ring, shown, heard>>

(* ffmpeg has written everything, or dies. *)
Exit ==
    /\ ~exited /\ exited' = TRUE
    /\ UNCHANGED <<phase, mux, made, hand, queue, pre, free, ready, debt, ring, shown, heard>>

(* The reader has closed its channel: end of file, nothing in hand.        *)
Closed(s) == hand[s] = 0 /\ (exited \/ made[s] = Frames)

-----------------------------------------------------------------------------
(* Run.                                                                    *)

EndRun ==
    /\ phase' = "done"
    /\ UNCHANGED <<mux, made, hand, queue, exited, ready, debt, ring, shown, heard>>

(* The prebuffer collects video up to its target and empties the audio     *)
(* channel while it waits.  The slip forgets the audio.                    *)
PrebufferVideoOnly(s) == s = "video" /\ queue[s] # <<>>
PrebufferDrains(s)    == queue[s] # <<>>

Prebuffering == phase = "prebuffer" /\ Len(pre["video"]) < PrebufferTarget

Prebuffer ==
    /\ Prebuffering
    /\ \E s \in Streams :
          /\ PrebufferDrains(s)
          /\ pre' = [pre EXCEPT ![s] = Append(@, Head(queue[s]))]
          /\ queue' = [queue EXCEPT ![s] = Tail(@)]
    /\ UNCHANGED <<phase, mux, made, hand, free, exited, ready, debt, ring, shown, heard>>

(* The target is reached, or five seconds have passed.                     *)
StartTicking ==
    /\ phase = "prebuffer" /\ phase' = "ticking"
    /\ UNCHANGED <<mux, made, hand, queue, pre, free, exited, ready, debt, ring, shown, heard>>

PrebufferFull    == ~Prebuffering /\ StartTicking
PrebufferTimeout == Prebuffering /\ StartTicking

(* ffmpeg exits or its video ends: Run fails and returns the buffers.      *)
PrebufferFails ==
    /\ Prebuffering
    /\ exited \/ (queue["video"] = <<>> /\ Closed("video"))
    /\ free' = free + Len(pre["video"])
    /\ pre' = [pre EXCEPT !["video"] = <<>>]
    /\ EndRun

(* What a tick finds: first the prebuffer, then the channel.               *)
Available(s) == pre[s] \o queue[s]

(* The first n of them are gone. *)
Drop(q, n)  == SubSeq(q, n + 1, Len(q))
TakeItems(s, n)  ==
    LET fromPre == IF n < Len(pre[s]) THEN n ELSE Len(pre[s])
    IN [pre |-> Drop(pre[s], fromPre), queue |-> Drop(queue[s], n - fromPre)]

(* avPairer.next: chunks owed to frames that were shown without one are    *)
(* stale and dropped.  It returns how many chunks go and which one is      *)
(* played, 0 for none.  The slip plays the oldest chunk there is.          *)
PairOldest(n) == [taken |-> IF n > 0 THEN 1 ELSE 0, at |-> IF n > 0 THEN 1 ELSE 0, debt |-> 0]
Pair(n) ==
    IF debt < n THEN [taken |-> debt + 1, at |-> debt + 1, debt |-> 0]
    ELSE [taken |-> n, at |-> 0, debt |-> debt - n + 1]

(* audioDelayRing: a full ring sheds its oldest chunk; one is released     *)
(* when more than AudioDelay are held.  One slip keeps what a full ring     *)
(* holds, the other releases a chunk too early.                            *)
PushKeeping(r, c) == Append(r, c)
Push(r, c) == IF Len(r) = AudioDelay + 1 THEN Append(Tail(r), c) ELSE Append(r, c)
DueEarly(r) == r # <<>> /\ Len(r) >= AudioDelay
Due(r)      == Len(r) > AudioDelay

(* The audio half of a tick, after the chunk was queued. *)
PlayChunk(r) ==
    IF ready /\ Due(r) THEN ring' = Tail(r) /\ heard' = Head(r)
    ELSE ring' = r /\ UNCHANGED heard

(* A frame is there: it is shown, its buffer goes back, and its chunk is   *)
(* queued.                                                                 *)
ShowFrame ==
    /\ Available("video") # <<>>
    /\ LET chunks == Available("audio")
           pair   == Pair(Len(chunks))
           v      == TakeItems("video", 1)
           a      == TakeItems("audio", pair.taken)
       IN /\ shown' = Head(Available("video"))
          /\ free' = free + 1
          /\ pre'   = [video |-> v.pre, audio |-> a.pre]
          /\ queue' = [video |-> v.queue, audio |-> a.queue]
          /\ debt'  = pair.debt
          /\ PlayChunk(IF pair.at = 0 THEN ring ELSE Push(ring, chunks[pair.at]))

(* Underrun: the last field stays, and so does the audio that belongs to   *)
(* the frames to come.                                                     *)
Hold == PlayChunk(ring) /\ UNCHANGED <<pre, queue, free, debt, shown>>

PumpTick ==
    /\ phase = "ticking"
    /\ \/ ShowFrame
       \/ Available("video") = <<>> /\ ~Closed("video") /\ Hold
    /\ UNCHANGED <<phase, mux, made, hand, exited, ready>>

(* The tick finds the video closed; or Run's select sees ffmpeg's exit,    *)
(* whatever is still queued.                                               *)
EndOfFile ==
    /\ phase = "ticking"
    /\ (Available("video") = <<>> /\ Closed("video")) \/ exited
    /\ EndRun /\ UNCHANGED <<pre, free>>

(* The context is cancelled: during the prebuffer the buffers go back.     *)
RunCancelled ==
    /\ phase # "done"
    /\ free' = IF phase = "prebuffer" THEN free + Len(pre["video"]) ELSE free
    /\ pre' = IF phase = "prebuffer" THEN [pre EXCEPT !["video"] = <<>>] ELSE pre
    /\ EndRun

(* An ACK says whether the MiSTer takes audio. *)
Ack ==
    /\ phase # "done"
    /\ ready' = ~ready
    /\ UNCHANGED <<phase, mux, made, hand, queue, pre, free, exited, debt, ring, shown, heard>>

Reader(s) == MuxTurns(s) \/ Read(s) \/ Enqueue(s)
Run == \/ Prebuffer \/ PrebufferFull \/ PrebufferTimeout \/ PrebufferFails
       \/ PumpTick \/ EndOfFile \/ RunCancelled \/ Ack

PumpNext == (\E s \in Streams : Reader(s)) \/ Exit \/ Run

(***************************************************************************)
(* ffmpeg goes on as long as somebody reads, the readers and the tick loop *)
(* are scheduled.  The prebuffer's timeout is not relied on.               *)
(***************************************************************************)
PumpFairness ==
    /\ WF_pumpVars(\E s \in Streams : MuxTurns(s))
    /\ \A s \in Streams : WF_pumpVars(Read(s)) /\ WF_pumpVars(Enqueue(s))
    /\ WF_pumpVars(Prebuffer) /\ WF_pumpVars(PrebufferFull) /\ WF_pumpVars(PrebufferFails)
    /\ WF_pumpVars(PumpTick) /\ WF_pumpVars(EndOfFile)

PumpSpec == PumpInit /\ [][PumpNext]_pumpVars /\ PumpFairness

-----------------------------------------------------------------------------
Items == 1..Frames

PumpShape ==
    /\ phase \in {"prebuffer", "ticking", "done"}
    /\ mux \in Streams \cup {"none"}
    /\ made \in [Streams -> 0..Frames] /\ hand \in [Streams -> 0..Frames]
    /\ queue \in [Streams -> Seq(Items)] /\ pre \in [Streams -> Seq(Items)]
    /\ \A s \in Streams : Len(queue[s]) <= Cap(s)
    /\ free \in 0..PoolSlots /\ debt \in 0..Frames
    /\ ring \in Seq(Items) /\ Len(ring) <= AudioDelay + 1
    /\ shown \in 0..Frames /\ heard \in 0..Frames

PumpTypeOK == PumpShape /\ exited \in BOOLEAN /\ ready \in BOOLEAN

(* The chunk a tick queues is the one of the frame it shows, whatever      *)
(* stalled before: neither a held field nor a frame that had to do without *)
(* its chunk shifts the sound against the picture.                         *)
PairedByIndex ==
    [][ring' # <<>> /\ Last(ring') \notin Range(ring) => Last(ring') = shown']_pumpVars

(* Sound never runs ahead: a chunk leaves AudioDelay frames after its own. *)
AudioNeverLeads == heard # 0 => heard + AudioDelay <= shown

(* The pump never jams: again and again everything ffmpeg has written is   *)
(* shown, unless the session ends.  Neither the prebuffer nor a stream     *)
(* whose queue is full can stop it, although nothing but the arrival of    *)
(* video lets a tick take audio.                                           *)
PumpNeverJams == []<>(shown = made["video"] \/ phase = "done")
=============================================================================
