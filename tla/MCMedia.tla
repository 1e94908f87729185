------------------------------ MODULE MCMedia ------------------------------
(***************************************************************************)
(* The parts that bring pictures and sound to the tick loop, one at a      *)
(* time: each behaviour is one of an HLS session (HlsBuffer), of a live    *)
(* audio receiver (LiveAudio) or of a Plane's pump (AvPump), while the     *)
(* others are off.                                                         *)
(***************************************************************************)
EXTENDS HlsBuffer, LiveAudio, AvPump

(* A sender that pauses, one with sound whose helper crashes, one with     *)
(* pictures; the receiver is shut down during the last two.                *)
MCLimits ==
    {[kinds |-> {"play", "pause"}, events |-> 4, crashes |-> 0],
     [kinds |-> {"play", "pause", "stop", "sound", "shutdown"}, events |-> 2, crashes |-> 1],
     [kinds |-> {"play", "inline", "url", "clear", "bad", "shutdown"}, events |-> 2, crashes |-> 0]}

Init == \/ HlsInit /\ AudioOff /\ PumpOff
        \/ AudioInit /\ HlsOff /\ PumpOff
        \/ PumpInit /\ HlsOff /\ AudioOff

Next == \/ HlsNext /\ UNCHANGED <<audioVars, pumpVars>>
        \/ AudioNext /\ UNCHANGED <<hlsVars, pumpVars>>
        \/ PumpNext /\ UNCHANGED <<hlsVars, audioVars>>

Spec == Init /\ [][Next]_<<hlsVars, audioVars, pumpVars>>
             /\ HlsFairness /\ AudioFairness /\ PumpFairness

-----------------------------------------------------------------------------
(* Nothing outgrows its limit: the cache its segments and bytes, the queues*)
(* of messages, of frames and of sound their channels, the ring its delay. *)
TypeOK == HlsTypeOK /\ AudioTypeOK /\ PumpTypeOK
LimitsKept == TypeOK /\ WithinLimits

(* The directory of an HLS session holds what its playlist names, and is   *)
(* gone for good when Close has returned.                                  *)
DirectoryIsTrue == PlaylistIsTrue /\ RemovedIsFinal

(* What is waited for comes: Close of an HLS session, which waits for its  *)
(* refresh loop; a helper's write to a full relay, paused or not, played or*)
(* preempted; the end of a helper that was told to restart; and Stop of a  *)
(* receiver, which waits for its supervisor.                               *)
CallsReturn == CloseReturns /\ WriteReturns /\ RestartEndsHelper /\ StopReturns
=============================================================================
