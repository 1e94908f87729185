---------------------------- MODULE DlnaRenderer ----------------------------
(***************************************************************************)
(* The DLNA adapter (internal/adapters/dlna): the AVTransport actions that *)
(* control points call, each in a request goroutine of its own, and the    *)
(* OnStop hooks of the sessions they start.                                *)
(*                                                                         *)
(* An HLS source is cached on disk before it is played.  Such a cache has  *)
(* one owner after the other: the request that prepared it, the loaded     *)
(* URI, the session that plays it; each must remove it or hand it on.      *)
(***************************************************************************)
EXTENDS CoreSlot, FiniteSets

CONSTANTS
    DlnaLimits    \* the behaviours of an instance:
                  \*   asks: the actions that are called, of DlnaAsks
                  \*   sources: what is loaded, of [hls, live: BOOLEAN]
                  \*   commands, ends: bounds on calls, and on sessions that
                  \*     end by themselves or are taken by another adapter
                  \*   together: may calls overlap: "none", "all", or "sets",
                  \*     those of SetAVTransportURI with others
                  \*   faults: may preparing and starting fail
                  \*   autoplay: cfg.AutoplayOnSetURI

ASSUME DlnaAssumption ==
    /\ DlnaLimits # {}
    /\ \A l \in DlnaLimits :
          l.commands \in Nat /\ l.ends \in Nat /\ l.sources \subseteq [hls : BOOLEAN, live : BOOLEAN]

DlnaAsks == {"set", "play", "pause", "stop", "disable"}

VARIABLES
    dlnaLimit,
    enabled,       \* cfg.Enabled
    currentRef,    \* of the session that plays or starts, or 0
    startInFlight,
    transportState,
    loaded,        \* the loaded source, and its cache or 0
    refs,          \* session refs minted
    calls,         \* actions under way
    caches,        \* caches on disk
    removing,      \* caches that a cleanup function is about to remove
    prepared,      \* caches prepared so far
    dlnaAsked, dlnaEnded

transport == <<currentRef, startInFlight, transportState>>
onDisk    == <<caches, removing, prepared>>
dlnaOwn   == <<dlnaLimit, enabled, transport, loaded, refs, calls, onDisk, dlnaAsked, dlnaEnded>>
dlnaVars  == <<slotVars, dlnaOwn>>

NoSource == [hls |-> FALSE, live |-> FALSE]
Nothing  == [uri |-> FALSE, source |-> NoSource, cache |-> 0]
Ref(n)   == <<n>>

DlnaIdleState ==
    /\ enabled = TRUE /\ currentRef = 0 /\ startInFlight = FALSE /\ transportState = "STOPPED"
    /\ loaded = Nothing /\ refs = 0 /\ calls = {} /\ caches = {} /\ removing = {} /\ prepared = 0

DlnaInit ==
    /\ SlotInit /\ DlnaIdleState
    /\ dlnaAsked = 0 /\ dlnaEnded = 0 /\ dlnaLimit \in DlnaLimits

(* No behaviour of this adapter. *)
DlnaOff ==
    /\ DlnaIdleState
    /\ dlnaLimit = CHOOSE l \in DlnaLimits : TRUE
    /\ dlnaAsked = dlnaLimit.commands /\ dlnaEnded = dlnaLimit.ends

-----------------------------------------------------------------------------
(* A call: what it saw of the adapter when it came in, and what it starts. *)
Call(pc) == [pc |-> pc, n |-> dlnaAsked', owned |-> currentRef, state |-> transportState,
             expected |-> 0, ref |-> 0, source |-> NoSource, cache |-> 0]

(* While the adapter is disabled every action is rejected. *)
Arrives(what, pc) ==
    /\ what \in dlnaLimit.asks
    /\ dlnaAsked < dlnaLimit.commands /\ dlnaAsked' = dlnaAsked + 1
    /\ \/ calls = {} \/ dlnaLimit.together = "all"
       \/ dlnaLimit.together = "sets" /\ (what = "set" \/ \A c \in calls : c.pc = "validate")
    /\ enabled
    /\ calls' = calls \cup {Call(pc)}
    /\ UNCHANGED <<slotVars, dlnaLimit, transport, loaded, refs, onDisk, dlnaEnded>>

Becomes(c, d)   == calls' = (calls \ {c}) \cup {d}
Proceeds(c, pc) == Becomes(c, [c EXCEPT !.pc = pc])
Returns(c)      == calls' = calls \ {c}
Rest            == <<dlnaLimit, dlnaAsked, dlnaEnded>>

Ours(ref) == Owned("dlna") /\ owner.ref = Ref(ref)

(* A cleanup function is called, when the lock is released. *)
Cleans(c) == removing' = removing \cup ({c} \ {0})

Prepares == prepared' = prepared + 1 /\ caches' = caches \cup {prepared'}

-----------------------------------------------------------------------------
(* SetAVTransportURI: validating the source takes a while, after which the *)
(* admission is repeated.  With autoplay it goes on like Play.             *)
HandleSetAVTransportURI ==
    /\ ~startInFlight /\ currentRef = 0
    /\ Arrives("set", "validate") /\ UNCHANGED enabled

(* The slip does not look again. *)
AdmitsBlindly == enabled
Admits        == enabled /\ ~startInFlight /\ currentRef = 0

StoreURI(c) ==
    /\ c.pc = "validate" /\ Admits
    /\ \E s \in dlnaLimit.sources :
          /\ IF s.hls THEN Prepares ELSE UNCHANGED <<caches, prepared>>
          /\ loaded' = [uri |-> TRUE, source |-> s, cache |-> IF s.hls THEN prepared' ELSE 0]
    /\ Cleans(loaded.cache)
    /\ IF dlnaLimit.autoplay THEN Proceeds(c, "admit") ELSE Returns(c)
    /\ UNCHANGED <<slotVars, Rest, enabled, transport, refs>>

(* The source is refused, or the adapter is busy by now.  What was prepared*)
(* is removed at once.                                                     *)
RefuseURI(c) ==
    /\ c.pc = "validate" /\ (~Admits \/ dlnaLimit.faults)
    /\ Returns(c)
    /\ UNCHANGED <<slotVars, Rest, enabled, transport, loaded, refs, onDisk>>

-----------------------------------------------------------------------------
(* Play.                                                                   *)
HandlePlay == ~startInFlight /\ Arrives("play", "play") /\ UNCHANGED enabled

(* The manager's status decides: a session of ours that plays, is paused   *)
(* (and resumes, or reconnects when it is live), one of others, or none.   *)
DecidePlay(c) ==
    /\ c.pc = "play"
    /\ LET own == c.owned # 0 /\ Ours(c.owned)
       IN IF own /\ c.state = "PLAYING" THEN Returns(c)
          ELSE IF own /\ c.state = "PAUSED"
          THEN IF owner.req.live THEN Becomes(c, [c EXCEPT !.pc = "admit", !.expected = c.owned])
               ELSE Proceeds(c, "resume")
          ELSE IF (Idle \/ own) /\ loaded.uri THEN Proceeds(c, "admit") ELSE Returns(c)
    /\ UNCHANGED <<slotVars, Rest, enabled, transport, loaded, refs, onDisk>>

(* PlayIfAdapterRef, an error if it is not paused.  The state is set after *)
(* it, whatever has happened since.                                        *)
Resume(c) ==
    /\ c.pc = "resume"
    /\ IF Ours(c.owned) /\ owner.paused THEN SetPaused(FALSE) /\ Proceeds(c, "resumed")
       ELSE Returns(c) /\ UNCHANGED slotVars
    /\ UNCHANGED <<Rest, enabled, transport, loaded, refs, onDisk>>

Resumed(c) ==
    /\ c.pc = "resumed"
    /\ transportState' = "PLAYING" /\ Returns(c)
    /\ UNCHANGED <<slotVars, Rest, enabled, currentRef, startInFlight, loaded, refs, onDisk>>

(* markStartInFlightFor: a fresh start has a ref of its own, a reconnect   *)
(* keeps the one it has.                                                   *)
MarkStartInFlight(c) ==
    /\ c.pc = "admit"
    /\ IF startInFlight \/ (c.expected # 0 /\ currentRef # c.expected)
       THEN Returns(c) /\ UNCHANGED <<transport, refs>>
       ELSE /\ refs' = IF c.expected = 0 THEN refs + 1 ELSE refs
            /\ currentRef' = IF c.expected = 0 THEN refs' ELSE c.expected
            /\ startInFlight' = TRUE
            /\ Becomes(c, [c EXCEPT !.pc = "snapshot", !.ref = currentRef'])
            /\ UNCHANGED transportState
    /\ UNCHANGED <<slotVars, Rest, enabled, loaded, onDisk>>

(* What is loaded is what is started, from its cache if it is HLS.         *)
SnapshotLoaded(c) ==
    /\ c.pc = "snapshot"
    /\ Becomes(c, [c EXCEPT !.source = loaded.source, !.cache = loaded.cache,
                      !.pc = IF loaded.source.hls /\ loaded.cache = 0 THEN "recache" ELSE "start"])
    /\ UNCHANGED <<slotVars, Rest, enabled, transport, loaded, refs, onDisk>>

(* A cache that a session's end removed is prepared anew, and kept if the  *)
(* same source is loaded and still has none.                               *)
Recache(c) ==
    /\ c.pc = "recache"
    /\ \/ /\ loaded.source = c.source /\ loaded.cache = 0
          /\ Prepares /\ loaded' = [loaded EXCEPT !.cache = prepared']
          /\ Becomes(c, [c EXCEPT !.pc = "start", !.cache = prepared'])
       \/ /\ dlnaLimit.faults \/ loaded.source # c.source \/ loaded.cache # 0
          /\ Proceeds(c, "rollback") /\ UNCHANGED <<caches, prepared, loaded>>
    /\ UNCHANGED <<slotVars, Rest, enabled, transport, refs, removing>>

(* StartSessionIfAdapterRef: from idle, or over the session that reconnects.*)
(* A reconnect that fails leaves that session paused.                      *)
Startable(c) == IF c.expected = 0 THEN Idle ELSE Ours(c.expected)

StartSessionIfAdapterRef(c) ==
    /\ c.pc = "start"
    /\ \/ /\ Startable(c)
          /\ Installs(Session("dlna", Ref(c.ref), [cache |-> c.cache, live |-> c.source.live]))
          /\ Proceeds(c, "started")
       \/ /\ ~Startable(c) \/ dlnaLimit.faults
          /\ Proceeds(c, "rollback") /\ UNCHANGED slotVars
    /\ UNCHANGED <<Rest, enabled, transport, loaded, refs, onDisk>>

(* clearStartInFlight and clearStartInFlightPreserveRef; a failed fresh    *)
(* start means STOPPED, unless another one has begun.                      *)
RollbackAdmission(c) ==
    /\ c.pc = "rollback"
    /\ IF currentRef # c.ref THEN UNCHANGED <<currentRef, startInFlight>>
       ELSE startInFlight' = FALSE /\ currentRef' = IF c.expected = 0 THEN 0 ELSE currentRef
    /\ IF c.expected = 0 THEN Proceeds(c, "stopped") ELSE Returns(c)
    /\ UNCHANGED <<slotVars, Rest, enabled, transportState, loaded, refs, onDisk>>

FailedStart(c) ==
    /\ c.pc = "stopped"
    /\ transportState' = IF currentRef = 0 THEN "STOPPED" ELSE transportState
    /\ Returns(c)
    /\ UNCHANGED <<slotVars, Rest, enabled, currentRef, startInFlight, loaded, refs, onDisk>>

ClearStartInFlight(c) ==
    /\ c.pc = "started"
    /\ startInFlight' = IF currentRef = c.ref THEN FALSE ELSE startInFlight
    /\ Proceeds(c, "playing")
    /\ UNCHANGED <<slotVars, Rest, enabled, currentRef, transportState, loaded, refs, onDisk>>

StartSucceeded(c) ==
    /\ c.pc = "playing"
    /\ transportState' = IF currentRef = c.ref THEN "PLAYING" ELSE transportState
    /\ Returns(c)
    /\ UNCHANGED <<slotVars, Rest, enabled, currentRef, startInFlight, loaded, refs, onDisk>>

-----------------------------------------------------------------------------
(* Pause and Stop.  (Seek replays the session as it is: nothing changes.)  *)
HandlePauseAction ==
    /\ currentRef # 0 /\ transportState = "PLAYING"
    /\ Arrives("pause", "pause") /\ UNCHANGED enabled

PauseIfAdapterRef(c) ==
    /\ c.pc = "pause"
    /\ IF Ours(c.owned) /\ ~owner.paused THEN SetPaused(TRUE) /\ Proceeds(c, "paused")
       ELSE Returns(c) /\ UNCHANGED slotVars
    /\ UNCHANGED <<Rest, enabled, transport, loaded, refs, onDisk>>

PauseSucceeded(c) ==
    /\ c.pc = "paused"
    /\ transportState' = IF currentRef = c.owned THEN "PAUSED" ELSE transportState
    /\ Returns(c)
    /\ UNCHANGED <<slotVars, Rest, enabled, currentRef, startInFlight, loaded, refs, onDisk>>

HandleStopAction == currentRef # 0 /\ Arrives("stop", "stop") /\ UNCHANGED enabled

StopIfAdapterRef(c) ==
    /\ c.pc = "stop"
    /\ IF Ours(c.owned) THEN Stop ELSE UNCHANGED slotVars
    /\ Returns(c)
    /\ UNCHANGED <<Rest, enabled, transport, loaded, refs, onDisk>>

(* The adapter is switched off, and on again: ApplyConfig, then Stop.      *)
Disable == Arrives("disable", "off") /\ enabled' = FALSE

ClearLoadedPlaybackCacheIfIdle(c) ==
    /\ c.pc = "off"
    /\ IF currentRef = 0 THEN Cleans(loaded.cache) /\ loaded' = [loaded EXCEPT !.cache = 0]
       ELSE UNCHANGED <<removing, loaded>>
    /\ Proceeds(c, "on")
    /\ UNCHANGED <<slotVars, Rest, enabled, transport, refs, caches, prepared>>

Enable(c) ==
    /\ c.pc = "on"
    /\ enabled' = TRUE /\ Returns(c)
    /\ UNCHANGED <<slotVars, Rest, transport, loaded, refs, onDisk>>

-----------------------------------------------------------------------------
(* What happens by itself, or is asked for elsewhere: an end, paused or not*)
(* (the user interface stops what plays), and a cast of another adapter.   *)
DlnaEnds ==
    /\ dlnaEnded < dlnaLimit.ends /\ dlnaEnded' = dlnaEnded + 1
    /\ Owned("dlna") /\ Stop
    /\ UNCHANGED <<dlnaLimit, enabled, transport, loaded, refs, calls, onDisk, dlnaAsked>>

DlnaOtherTakes ==
    /\ dlnaEnded < dlnaLimit.ends /\ dlnaEnded' = dlnaEnded + 1
    /\ ~Owned("other") /\ Installs(OtherSession)
    /\ UNCHANGED <<dlnaLimit, enabled, transport, loaded, refs, calls, onDisk, dlnaAsked>>

(* onStopForRef.  It has nothing to do when another session was begun: its *)
(* cache has passed on.                                                    *)
OnStopForRef ==
    \E o \in told :
        /\ o.of.by = "dlna"
        /\ told' = told \ {o}
        /\ IF Ref(currentRef) = o.of.ref
           THEN /\ currentRef' = 0 /\ startInFlight' = FALSE /\ transportState' = "STOPPED"
                /\ loaded' = IF loaded.cache = o.of.req.cache THEN [loaded EXCEPT !.cache = 0] ELSE loaded
                /\ Cleans(o.of.req.cache)
           ELSE UNCHANGED <<transport, loaded, removing>>
        /\ UNCHANGED <<owner, gens, Rest, enabled, refs, calls, caches, prepared>>

RemoveCache ==
    \E c \in removing :
        /\ caches' = caches \ {c} /\ removing' = removing \ {c}
        /\ UNCHANGED <<slotVars, Rest, enabled, transport, loaded, refs, calls, prepared>>

-----------------------------------------------------------------------------
DlnaHandler ==
    \/ HandleSetAVTransportURI \/ HandlePlay \/ HandlePauseAction \/ HandleStopAction \/ Disable

DlnaContinues(c) ==
    \/ StoreURI(c) \/ RefuseURI(c) \/ DecidePlay(c) \/ Resume(c) \/ Resumed(c)
    \/ MarkStartInFlight(c) \/ SnapshotLoaded(c) \/ Recache(c) \/ StartSessionIfAdapterRef(c)
    \/ RollbackAdmission(c) \/ FailedStart(c) \/ ClearStartInFlight(c) \/ StartSucceeded(c)
    \/ PauseIfAdapterRef(c) \/ PauseSucceeded(c) \/ StopIfAdapterRef(c)
    \/ ClearLoadedPlaybackCacheIfIdle(c) \/ Enable(c)

DlnaNext ==
    \/ DlnaHandler \/ DlnaEnds \/ DlnaOtherTakes \/ OnStopForRef \/ RemoveCache
    \/ \E c \in calls : DlnaContinues(c)

DlnaSpec == DlnaInit /\ [][DlnaNext]_dlnaVars

-----------------------------------------------------------------------------
DlnaTypeOK ==
    /\ startInFlight => currentRef # 0
    /\ currentRef \in 0..refs
    /\ caches \subseteq 1..prepared /\ removing \subseteq caches
    /\ loaded.cache # 0 => loaded.source.hls

(* The cache that a session plays from, or a start is about to hand over,  *)
(* is on disk, and nobody is removing it; SetAVTransportURI may come at any*)
(* time.  (Two Plays may cross: the second one, not matched by the manager,*)
(* rolls currentRef back to none over the session of the first.)           *)
PlaysApart ==
    \/ dlnaLimit.together = "none"
    \/ dlnaLimit.together = "sets" /\ ~dlnaLimit.autoplay

Kept(c) == c = 0 \/ c \in caches \ removing

CacheOutlivesItsUse ==
    PlaysApart =>
        /\ Owned("dlna") => Kept(owner.req.cache)
        /\ \A c \in calls : c.pc = "start" /\ Startable(c) => Kept(c.cache)

(* No cache is left behind: when all is quiet only that of the loaded URI  *)
(* is on disk.                                                             *)
DlnaQuiet == calls = {} /\ told = {} /\ removing = {}

NoCacheLeaks == DlnaQuiet => caches = {loaded.cache} \ {0}

(* When all is quiet the session of ours that plays is the one that the    *)
(* actions go by, and they know whether it plays; and there is none to go  *)
(* by when ours has ended.                                                 *)
RefIsPlaying ==
    DlnaQuiet /\ PlaysApart =>
        /\ currentRef # 0 <=> Owned("dlna")
        /\ Owned("dlna") =>
             /\ Ours(currentRef) /\ ~startInFlight
             /\ transportState = IF owner.paused THEN "PAUSED" ELSE "PLAYING"
=============================================================================
