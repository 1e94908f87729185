----------------------------- MODULE FieldDelta -----------------------------
(***************************************************************************)
(* Delta compression of video fields over a lossy link: sendField,         *)
(* holdField and the delta-LZ4 history of internal/dataplane's Plane, for  *)
(* a session whose codec is LZ4 with delta enabled.                        *)
(*                                                                         *)
(* Per polarity the Plane keeps the field it sent last.  The next one may  *)
(* go out as a difference to it, which the MiSTer adds to what it holds in *)
(* that polarity's buffer.  Nothing tells the Plane that a field arrived   *)
(* except the frame number that ACKs echo, and those get lost too.  Field  *)
(* contents are reduced to whether the MiSTer's buffer is what the Plane   *)
(* remembers (inStep), sizes to whether the delta wins.                    *)
(***************************************************************************)
EXTENDS Integers, Sequences

CONSTANTS
    Interlaced,          \* does the modeline alternate polarities
    ForcedFullInterval,  \* deltaLZ4ForcedFullInterval
    BackoffAfterLosses,  \* deltaBackoffAfterLosses
    BackoffFields,       \* deltaBackoffFields
    ResyncMinTicks,      \* deltaResyncMinTicks
    AckCap,              \* bound on the ACKs under way to the tick loop
    MaxFrame             \* bound on the fields of the session

Polarities == {0, 1}

ASSUME DeltaAssumption ==
    /\ Interlaced \in BOOLEAN
    /\ ForcedFullInterval \in Nat \ {0}
    /\ BackoffAfterLosses \in Nat \ {0}
    /\ {BackoffFields, ResyncMinTicks, AckCap, MaxFrame} \subseteq Nat

VARIABLES
    frame,       \* frameNum
    polarity,    \* the field the next tick emits: nextField and fieldOrderFlip
    valid,       \* fieldPrevValid
    sinceFull,   \* deltaFieldsSinceFull
    losses,      \* deltaLosses, as far as it matters: up to BackoffAfterLosses
    backoff,     \* deltaBackoff
    lastEcho,    \* the last frame the MiSTer echoed
    lastResync,  \* lastEchoResyncFrame, or -1 while echoResyncArmed is false
    acks,        \* ACKs under way: the frames they echo
    inStep,      \* does the MiSTer's buffer hold what fieldPrev remembers
    lost,        \* has a field of this polarity been lost since a full one arrived
    astray,      \* fields that arrived since the last loss, decoded to a wrong picture
    excused      \* may a loss in this polarity have gone without a resync

sender   == <<valid, sinceFull, losses, backoff>>
receiver == <<inStep, lost, astray>>
vars == <<frame, polarity, sender, lastEcho, lastResync, acks, receiver, excused>>

NoHistory == [s \in Polarities |-> FALSE]

Init ==
    /\ frame = 0 /\ polarity \in (IF Interlaced THEN Polarities ELSE {0})
    /\ valid = NoHistory
    /\ sinceFull = [s \in Polarities |-> 0]
    /\ losses = [s \in Polarities |-> 0] /\ backoff = [s \in Polarities |-> 0]
    /\ lastEcho = 0 /\ lastResync = -1 /\ acks = <<>>
    /\ inStep = [s \in Polarities |-> FALSE]
    /\ lost = [s \in Polarities |-> FALSE]
    /\ astray = [s \in Polarities |-> 0]
    /\ excused = [s \in Polarities |-> FALSE]

-----------------------------------------------------------------------------
(* Choosing the payload.                                                   *)

(* A slip: the counter of deltas is off by one. *)
MustSendFullLate(s) == sinceFull[s] >= ForcedFullInterval
MustSendFull(s)     == sinceFull[s] >= ForcedFullInterval - 1

(* Is a delta worth trying?  It is not without history, when a full field  *)
(* is due, or while deltas keep losing.                                    *)
Eligible(s) == valid[s] /\ ~MustSendFull(s)
TryDelta(s) == Eligible(s) /\ backoff[s] = 0

(* compressField picks the delta when it wins and keeps score.             *)
Compress(s, delta) ==
    /\ delta => TryDelta(s)
    /\ losses' = [losses EXCEPT ![s] =
          IF ~TryDelta(s) THEN @ ELSE IF delta THEN 0
          ELSE IF @ < BackoffAfterLosses THEN @ + 1 ELSE @]
    /\ backoff' = [backoff EXCEPT ![s] =
          IF TryDelta(s)
          THEN IF ~delta /\ losses[s] + 1 >= BackoffAfterLosses THEN BackoffFields ELSE @
          ELSE IF Eligible(s) THEN @ - 1 ELSE @]

-----------------------------------------------------------------------------
(* Sending it.                                                             *)

(* What can become of a field: the header is refused by the socket; the    *)
(* payload is torn by an error half-way; some of it gets lost on the way   *)
(* (or is eaten by a receiver still counting the bytes of an earlier torn  *)
(* payload); or it arrives.                                                *)
Fates == {"refused", "torn", "lost", "arrives"}

(* The polarity that is sent is remembered once the payload was handed     *)
(* over.  A torn payload, be it this field or the PCM after it, clears both*)
(* histories.  The slip clears only that of the torn field.                *)
HistoryAfterOwnOnly(s, fate, audioTorn) ==
    [valid EXCEPT ![s] = IF fate = "refused" THEN @ ELSE fate # "torn"]
HistoryAfter(s, fate, audioTorn) ==
    IF fate = "torn" \/ audioTorn THEN NoHistory
    ELSE IF fate = "refused" THEN valid ELSE [valid EXCEPT ![s] = TRUE]

HandedOver(fate) == fate \in {"lost", "arrives"}

(* What is in the MiSTer's buffers then.  After a torn payload nobody      *)
(* knows.  A delta is right only on top of the right field.                *)
BuffersAfter(s, delta, fate, audioTorn) ==
    CASE fate = "torn" \/ audioTorn -> NoHistory
      [] fate = "refused" -> inStep
      [] fate = "lost"    -> [inStep EXCEPT ![s] = FALSE]
      [] fate = "arrives" -> [inStep EXCEPT ![s] = delta => @]

Receive(s, delta, fate, audioTorn) ==
    /\ inStep' = BuffersAfter(s, delta, fate, audioTorn)
    /\ lost' = [lost EXCEPT ![s] = fate = "lost" \/ (@ /\ ~(fate = "arrives" /\ ~delta))]
    /\ astray' = [astray EXCEPT ![s] =
          IF fate = "lost" THEN 0
          ELSE IF fate = "arrives" THEN (IF delta /\ ~inStep[s] THEN @ + 1 ELSE 0) ELSE @]
    /\ excused' = [excused EXCEPT ![s] = @ /\ ~(fate = "arrives" /\ ~delta)]
    /\ \/ fate = "arrives" /\ Len(acks) < AckCap /\ acks' = Append(acks, frame')
       \/ UNCHANGED acks

SendField(s, audioTorn) ==
    \E delta \in BOOLEAN, fate \in Fates :
        /\ Compress(s, delta)
        /\ valid' = HistoryAfter(s, fate, audioTorn)
        /\ sinceFull' = [sinceFull EXCEPT ![s] =
              IF HandedOver(fate) THEN (IF delta THEN @ + 1 ELSE 0) ELSE @]
        /\ Receive(s, delta, fate, audioTorn)

(* Nothing to show: the LZ4 codec sends nothing, and the next field of each*)
(* polarity has to be a full one.  No frame was shown, so no audio is sent *)
(* that was not due already; it can be torn as well.                       *)
HoldField(audioTorn) ==
    /\ valid' = NoHistory
    /\ inStep' = IF audioTorn THEN NoHistory ELSE inStep
    /\ UNCHANGED <<sinceFull, losses, backoff, lost, astray, excused, acks>>

-----------------------------------------------------------------------------
(* The tick loop.                                                          *)

NextPolarity == IF Interlaced THEN 1 - polarity ELSE 0

Tick ==
    /\ frame < MaxFrame
    /\ frame' = frame + 1
    /\ polarity' = NextPolarity
    /\ \E audioTorn \in BOOLEAN : SendField(polarity, audioTorn) \/ HoldField(audioTorn)
    /\ UNCHANGED <<lastEcho, lastResync>>

(* A hole in the echoes means that a field, or only its ACK, was lost.  The*)
(* slip sees it only when the echo goes backwards.                         *)
EchoGapBackwards(prev, cur) == prev # 0 /\ cur < prev
EchoGap(prev, cur)          == prev # 0 /\ cur # prev + 1

ResyncAllowed == lastResync = -1 \/ frame - lastResync >= ResyncMinTicks

(* ACKs that echo no new frame are ignored.  The first echo is not judged, *)
(* and a resync within ResyncMinTicks of the last one is left out: a loss  *)
(* may then go unrepaired.                                                 *)
HandleAck ==
    /\ acks # <<>>
    /\ acks' = Tail(acks)
    /\ LET cur == Head(acks)
       IN IF cur = 0 \/ cur = lastEcho THEN UNCHANGED <<lastEcho, lastResync, valid, excused>>
          ELSE /\ lastEcho' = cur
               /\ IF EchoGap(lastEcho, cur) /\ ResyncAllowed
                  THEN lastResync' = frame /\ valid' = NoHistory /\ UNCHANGED excused
                  ELSE /\ UNCHANGED <<lastResync, valid>>
                       /\ excused' = IF lastEcho = 0 \/ EchoGap(lastEcho, cur)
                                     THEN [s \in Polarities |-> TRUE] ELSE excused
    /\ UNCHANGED <<frame, polarity, sinceFull, losses, backoff, receiver>>

LoseAck ==
    /\ acks # <<>>
    /\ acks' = Tail(acks)
    /\ UNCHANGED <<frame, polarity, sender, lastEcho, lastResync, receiver, excused>>

(* SetFieldOrder while the session runs. *)
FlipFieldOrder ==
    /\ Interlaced
    /\ polarity' = 1 - polarity
    /\ UNCHANGED <<frame, sender, lastEcho, lastResync, acks, receiver, excused>>

Next == Tick \/ HandleAck \/ LoseAck \/ FlipFieldOrder

Spec == Init /\ [][Next]_vars

-----------------------------------------------------------------------------
TypeOK ==
    /\ frame \in 0..MaxFrame
    /\ polarity \in Polarities
    /\ valid \in [Polarities -> BOOLEAN]
    /\ sinceFull \in [Polarities -> 0..(ForcedFullInterval - 1)]
    /\ losses \in [Polarities -> 0..BackoffAfterLosses]
    /\ backoff \in [Polarities -> 0..BackoffFields]
    /\ lastEcho \in 0..MaxFrame
    /\ lastResync \in -1..MaxFrame
    /\ acks \in Seq(1..MaxFrame) /\ Len(acks) <= AckCap
    /\ inStep \in [Polarities -> BOOLEAN]
    /\ lost \in [Polarities -> BOOLEAN]
    /\ astray \in [Polarities -> Nat]
    /\ excused \in [Polarities -> BOOLEAN]

(* A lost field is repaired without any feedback: of the fields that arrive*)
(* after a loss, fewer than ForcedFullInterval of a polarity are decoded to*)
(* a wrong picture, unless another one gets lost.                          *)
BoundedDamage == \A s \in Polarities : astray[s] < ForcedFullInterval

(* Only a field lost on the way makes the Plane send a delta the MiSTer    *)
(* cannot decode.  What it notices itself (refused headers, torn payloads  *)
(* of video or audio, underruns, a flip of the field order) never does.    *)
OnlyLossMisleads == \A s \in Polarities : valid[s] /\ ~inStep[s] => lost[s]

(* When every echo is in, a loss has been noticed, whether or not its      *)
(* neighbours' ACKs were lost as well: no delta is sent on top of a field  *)
(* the MiSTer does not hold, except where the rate limit or the session's  *)
(* first echo excuses it.                                                  *)
EchoGapHeals ==
    acks = <<>> /\ lastEcho = frame =>
        \A s \in Polarities : valid[s] /\ ~inStep[s] => excused[s]
=============================================================================
