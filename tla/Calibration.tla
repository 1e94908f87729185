----------------------------- MODULE Calibration -----------------------------
(***************************************************************************)
(* internal/calibration/controller.go: the test pattern and the draft      *)
(* geometry.  The controller never holds its mutex across a call of the    *)
(* session manager or of the saver, so the calls of several browser tabs,  *)
(* the idle timer, the manager's OnStop goroutines and other casts meet    *)
(* between the two halves of an operation.                                 *)
(*                                                                         *)
(* The session manager is the slot `playing': a session is its number (the *)
(* suffix of its AdapterRef, c.seq), and since refs are never reused the   *)
(* number stands for its generation, too; gen = 0 is "not known yet".      *)
(***************************************************************************)
EXTENDS Naturals

CONSTANTS
    Tabs,         \* the callers: browser tabs, each makes one call at a time
    Geometries,   \* the picture geometries somebody may choose
    Blank,        \* config.PictureGeometry{}
    MaxStarts,    \* bound on the patterns started
    MaxTouches    \* bound on Start and Preview together

ASSUME CalibrationAssumption ==
    /\ Blank \notin Geometries
    /\ MaxStarts \in Nat /\ MaxTouches \in Nat

VARIABLES
    state,       \* c.state
    endReason,   \* c.endReason
    starting,    \* c.starting
    draft,       \* c.draft
    seq,         \* c.seq
    ref,         \* c.ref, 0 for none
    gen,         \* c.gen
    pattern,     \* what c.pattern was drawn for, Nil for none
    activity,    \* c.activity
    armed,       \* token of the armed idle timer, 0 for none
    fired,       \* tokens of the expire goroutines that wait for the mutex
    stops,       \* sessions an expire goroutine is about to stop
    call,        \* per tab: the call it is inside of
    playing,     \* the bridge's session: a pattern, Cast or 0
    onStops,     \* OnStop goroutines under way: <<session, reason>>
    saved        \* the geometry in config.toml

control == <<state, endReason, starting, draft, seq, ref, gen, pattern, activity, armed>>
calVars == <<control, fired, stops, call, playing, onStops, saved>>

Nil      == "nil"
Cast     == MaxStarts + 1   \* any session that is not a calibration
Resting  == [at |-> "none"]
Sessions == 1..MaxStarts

CalInit ==
    /\ state = "idle" /\ endReason = "" /\ starting = FALSE
    /\ draft = Blank /\ seq = 0 /\ ref = 0 /\ gen = 0 /\ pattern = Nil
    /\ activity = 0 /\ armed = 0 /\ fired = {} /\ stops = {}
    /\ call = [t \in Tabs |-> Resting]
    /\ playing = 0 /\ onStops = {} /\ saved \in Geometries

At(t, where)   == call[t].at = where
Goes(t, where) == call' = [call EXCEPT ![t] = where]

-----------------------------------------------------------------------------
(* Helpers that run under the mutex.                                       *)

(* touchLocked stops the old timer and arms a new one.                    *)
Touch == activity' = activity + 1 /\ armed' = activity + 1

(* detachLocked.  The slip leaves the session attached. *)
DetachPatternOnly ==
    gen' = 0 /\ pattern' = Nil /\ armed' = 0 /\ UNCHANGED <<ref, activity>>
Detach ==
    ref' = 0 /\ gen' = 0 /\ pattern' = Nil /\ armed' = 0 /\ UNCHANGED activity

(* resetLocked *)
Reset == state' = "idle" /\ endReason' = "" /\ draft' = Blank

(* StopIfSession: without a generation it matches nothing. *)
StopsPattern(r, g) ==
    IF r # 0 /\ g = r /\ playing = r
    THEN playing' = 0 /\ onStops' = onStops \cup {<<r, "stopped">>}
    ELSE UNCHANGED <<playing, onStops>>

-----------------------------------------------------------------------------
(* Start, in four steps: the saved geometry; the checks; the manager's     *)
(* answer; the result.                                                     *)

ReadBridge(t) ==
    /\ At(t, "none") /\ seq < MaxStarts /\ activity < MaxTouches
    /\ Goes(t, [at |-> "called", saved |-> saved])
    /\ UNCHANGED <<control, fired, stops, playing, onStops, saved>>

AlreadyRunning(t) ==
    /\ At(t, "called") /\ (state = "active" \/ starting)
    /\ Goes(t, Resting)
    /\ UNCHANGED <<control, fired, stops, playing, onStops, saved>>

BeginStart(t) ==
    /\ At(t, "called") /\ state # "active" /\ ~starting
    /\ seq < MaxStarts
    /\ seq' = seq + 1 /\ starting' = TRUE /\ ref' = seq + 1
    /\ Goes(t, [at |-> "starting", ref |-> seq + 1,
                draft |-> IF state = "ended" THEN draft ELSE call[t].saved])
    /\ UNCHANGED <<state, endReason, draft, gen, pattern, activity, armed>>
    /\ UNCHANGED <<fired, stops, playing, onStops, saved>>

(* StartSessionIfIdleSnapshot *)
ManagerStarts(t) ==
    /\ At(t, "starting")
    /\ \E ok \in IF playing = 0 THEN BOOLEAN ELSE {FALSE} :
          /\ playing' = IF ok THEN call[t].ref ELSE playing
          /\ Goes(t, [call[t] EXCEPT !.at = IF ok THEN "started" ELSE "refused"])
    /\ UNCHANGED <<control, fired, stops, onStops, saved>>

StartRefused(t) ==
    /\ At(t, "refused")
    /\ starting' = FALSE
    /\ ref' = IF ref = call[t].ref THEN 0 ELSE ref
    /\ Goes(t, Resting)
    /\ UNCHANGED <<state, endReason, draft, seq, gen, pattern, activity, armed>>
    /\ UNCHANGED <<fired, stops, playing, onStops, saved>>

(* The session may have ended, or been let go of, before Start is back.    *)
(* The slip does not look.                                                 *)
TakesAll(t)  == TRUE
StillOurs(t) == ref = call[t].ref

Activate == state' = "active" /\ endReason' = ""

FinishStart(t) ==
    /\ At(t, "started")
    /\ starting' = FALSE
    /\ IF StillOurs(t)
       THEN /\ Activate
            /\ draft' = call[t].draft /\ pattern' = call[t].draft
            /\ gen' = call[t].ref
            /\ Touch
       ELSE UNCHANGED <<state, endReason, draft, gen, pattern, activity, armed>>
    /\ Goes(t, Resting)
    /\ UNCHANGED <<seq, ref, fired, stops, playing, onStops, saved>>

Preview(t, g) ==
    /\ At(t, "none") /\ state = "active" /\ ref # 0
    /\ activity < MaxTouches
    /\ draft' = g /\ pattern' = g
    /\ Touch
    /\ UNCHANGED <<state, endReason, starting, seq, ref, gen>>
    /\ UNCHANGED <<fired, stops, call, playing, onStops, saved>>

(* Save: detach; stop the session; write; the result. *)
BeginSave(t) ==
    /\ At(t, "none") /\ state # "idle"
    /\ Detach
    /\ Goes(t, [at |-> "saving", ref |-> ref, gen |-> gen, draft |-> draft])
    /\ UNCHANGED <<state, endReason, starting, draft, seq>>
    /\ UNCHANGED <<fired, stops, playing, onStops, saved>>

(* stopSession, of Save and of Cancel *)
CallStops(t) ==
    /\ At(t, "saving") \/ At(t, "cancelling")
    /\ StopsPattern(call[t].ref, call[t].gen)
    /\ Goes(t, IF At(t, "saving") THEN [call[t] EXCEPT !.at = "writing"] ELSE Resting)
    /\ UNCHANGED <<control, fired, stops, saved>>

(* SavePicture *)
Write(t) ==
    /\ At(t, "writing")
    /\ \E ok \in BOOLEAN :
          /\ saved' = IF ok THEN call[t].draft ELSE saved
          /\ Goes(t, [at |-> IF ok THEN "written" ELSE "failed"])
    /\ UNCHANGED <<control, fired, stops, playing, onStops>>

FinishSave(t) ==
    /\ \/ At(t, "failed") /\ state' = "ended" /\ endReason' = "save-failed" /\ UNCHANGED draft
       \/ At(t, "written") /\ Reset
    /\ Goes(t, Resting)
    /\ UNCHANGED <<starting, seq, ref, gen, pattern, activity, armed>>
    /\ UNCHANGED <<fired, stops, playing, onStops, saved>>

Cancel(t) ==
    /\ At(t, "none")
    /\ Detach /\ Reset
    /\ Goes(t, [at |-> "cancelling", ref |-> ref, gen |-> gen])
    /\ UNCHANGED <<starting, seq, fired, stops, playing, onStops, saved>>

-----------------------------------------------------------------------------
(* The idle timer.                                                         *)

TimerFires ==
    /\ armed # 0
    /\ fired' = fired \cup {armed} /\ armed' = 0
    /\ UNCHANGED <<state, endReason, starting, draft, seq, ref, gen, pattern, activity>>
    /\ UNCHANGED <<stops, call, playing, onStops, saved>>

(* expire.  A timer that fired cannot be stopped any more, so the token    *)
(* tells whether somebody was active since.  The slip does not compare it. *)
AnyToken(token) == TRUE
Latest(token)   == token = activity

Expire(token) ==
    /\ token \in fired /\ fired' = fired \ {token}
    /\ IF state = "active" /\ Latest(token)
       THEN /\ stops' = stops \cup {<<ref, gen>>}
            /\ Detach
            /\ state' = "ended" /\ endReason' = "timeout"
       ELSE UNCHANGED <<state, endReason, ref, gen, pattern, activity, armed, stops>>
    /\ UNCHANGED <<starting, draft, seq, call, playing, onStops, saved>>

ExpireStops(s) ==
    /\ s \in stops /\ stops' = stops \ {s}
    /\ StopsPattern(s[1], s[2])
    /\ UNCHANGED <<control, fired, call, saved>>

-----------------------------------------------------------------------------
(* The session manager and the rest of the bridge.                         *)

(* The pattern's session ends: by a failure, by the transport controls or  *)
(* because another cast starts.                                            *)
SessionEnds ==
    /\ \E end \in {<<0, "error">>, <<0, "stopped">>, <<Cast, "preempted">>} :
          /\ playing' = end[1]
          /\ onStops' = IF playing \in Sessions THEN onStops \cup {<<playing, end[2]>>} ELSE onStops
    /\ UNCHANGED <<control, fired, stops, call, saved>>

(* onStop *)
OnStop(r, reason) ==
    /\ <<r, reason>> \in onStops /\ onStops' = onStops \ {<<r, reason>>}
    /\ IF r = ref
       THEN /\ Detach
            /\ state' = "ended"
            /\ endReason' = CASE reason = "preempted" -> "cast"
                              [] reason = "stopped"   -> "stopped"
                              [] OTHER                -> "error"
       ELSE UNCHANGED <<state, endReason, ref, gen, pattern, activity, armed>>
    /\ UNCHANGED <<starting, draft, seq, fired, stops, call, playing, saved>>

Answer(t) ==
    \/ AlreadyRunning(t) \/ BeginStart(t) \/ ManagerStarts(t) \/ StartRefused(t) \/ FinishStart(t)
    \/ CallStops(t) \/ Write(t) \/ FinishSave(t)

Request(t) ==
    \/ ReadBridge(t) \/ BeginSave(t) \/ Cancel(t)
    \/ \E g \in Geometries : Preview(t, g)

Timer == TimerFires \/ (\E token \in fired : Expire(token)) \/ \E s \in stops : ExpireStops(s)

CalNext ==
    \/ \E t \in Tabs : Request(t) \/ Answer(t)
    \/ Timer
    \/ SessionEnds
    \/ \E o \in onStops : OnStop(o[1], o[2])

CalSpec == CalInit /\ [][CalNext]_calVars

(* Calls return, timers fire and goroutines run.  Nobody has to call.      *)
Fairness ==
    /\ \A t \in Tabs : WF_calVars(Answer(t))
    /\ WF_calVars(Timer)
    /\ WF_calVars(\E o \in onStops : OnStop(o[1], o[2]))

FairSpec == CalSpec /\ Fairness

-----------------------------------------------------------------------------
(* An active calibration that nobody is saving has its pattern on the CRT, *)
(* or is about to be told that it has not: even when the session ends      *)
(* before Start is back.                                                   *)
BeingSaved(t) == call[t].at \in {"saving", "writing", "written", "failed"}

DeadPatternIsNoticed ==
    state = "active" /\ (\A t \in Tabs : ~BeingSaved(t)) =>
        ref # 0 /\ (playing = ref \/ \E o \in onStops : o[1] = ref)

(* Whenever a preview is accepted the pattern it redraws exists and shows  *)
(* the current draft.                                                      *)
PatternShowsDraft == state = "active" /\ ref # 0 => pattern = draft

(* Whoever is still adjusting is not timed out: not by the latest touch's  *)
(* timer before it fires, nor by an older one that fired in the meantime.  *)
ActivityIsHonoured ==
    [][armed # 0 => (endReason' = "timeout" => endReason = "timeout")]_calVars

(* An abandoned browser tab cannot leave the pattern on the CRT: when      *)
(* nobody calls any more the pattern goes (comment on IdleTimeout).        *)
AbandonedPatternEnds == <>[](playing \notin Sessions)
=============================================================================
