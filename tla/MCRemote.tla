------------------------------ MODULE MCRemote ------------------------------
(***************************************************************************)
(* The adapters that are remote-controlled, one at a time, each with the   *)
(* manager's slot to itself but for casts of others.                       *)
(***************************************************************************)
EXTENDS PlexCompanion, JellyfinCast, DlnaRenderer

MCPlexLimits ==
    {[asks |-> {"play", "seek", "stop"}, commands |-> 2, ends |-> 1, together |-> TRUE, faults |-> TRUE],
     [asks |-> {"play", "skip", "switch"}, commands |-> 2, ends |-> 1, together |-> TRUE, faults |-> FALSE],
     [asks |-> {"play", "seek", "stop"}, commands |-> 3, ends |-> 2, together |-> FALSE, faults |-> FALSE],
     [asks |-> {"music", "pause", "stop"}, commands |-> 2, ends |-> 1, together |-> FALSE, faults |-> FALSE]}

JfLimit(what, n, m, overlap, fail, foreign, late) ==
    [asks |-> what, commands |-> n, ends |-> m, together |-> overlap, faults |-> fail,
     others |-> foreign, slow |-> late]

MCJfLimits ==
    {JfLimit({"play", "queue", "next", "stop", "seek"}, 2, 2, FALSE, FALSE, FALSE, FALSE),
     JfLimit({"play", "pause", "seek", "track", "switch"}, 2, 1, FALSE, TRUE, FALSE, FALSE),
     JfLimit({"play", "queue"}, 2, 1, TRUE, FALSE, TRUE, FALSE),
     JfLimit({"play", "seek"}, 2, 1, TRUE, FALSE, FALSE, TRUE)}

(* What control points do one at a time, and what they do together.        *)
AFile == [hls |-> FALSE, live |-> FALSE]
AList == [hls |-> TRUE, live |-> TRUE]

DlnaLimit(what, n, m, overlap, fail, auto) ==
    [asks |-> what, sources |-> {AFile, AList}, commands |-> n, ends |-> m, together |-> overlap,
     faults |-> fail, autoplay |-> auto]

MCDlnaLimits ==
    {DlnaLimit({"set", "play", "pause", "stop"}, 5, 2, "none", FALSE, FALSE),
     DlnaLimit({"set", "play", "disable"}, 4, 2, "none", TRUE, TRUE),
     DlnaLimit({"set", "play"}, 4, 2, "sets", TRUE, FALSE),
     DlnaLimit({"set", "play", "stop"}, 3, 1, "all", FALSE, FALSE)}

Init == \/ PlexInit /\ JfOff /\ DlnaOff
        \/ JfInit /\ PlexOff /\ DlnaOff
        \/ DlnaInit /\ PlexOff /\ JfOff

Next == \/ PlexNext /\ UNCHANGED <<jfOwn, dlnaOwn>>
        \/ JfNext /\ UNCHANGED <<plexOwn, dlnaOwn>>
        \/ DlnaNext /\ UNCHANGED <<plexOwn, jfOwn>>

Spec == Init /\ [][Next]_<<slotVars, plexOwn, jfOwn, dlnaOwn>> /\ PlexFairness /\ JfFairness

-----------------------------------------------------------------------------
TypeOK == PlexTypeOK /\ JfTypeOK /\ DlnaTypeOK

(* What an adapter remembers to play is what plays: seeks, skips, stops and*)
(* the next advance are about the session that is there.                   *)
RememberedIsPlaying == LastPlayIsPlaying /\ CurrentIsPlaying /\ RefIsPlaying

(* An advance of the queue that a command overtook leaves nothing behind.  *)
StaleLeavesNothing ==
    [][AdvanceLeavesNothing /\ FollowerLeavesNothing]_<<slotVars, plexOwn, jfOwn>>

(* What must follow comes: when an item has played to its end, the queue   *)
(* goes on, and the server learns of every session that ends.              *)
WhatFollowsComes == QueueGoesOn /\ QueueIsPlayed /\ ServerLearns

(* Every HLS cache is on disk for as long as it is used, and no longer.    *)
CachesInOrder == CacheOutlivesItsUse /\ NoCacheLeaks
=============================================================================
