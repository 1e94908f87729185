-------------------------- MODULE CalibrationProofs --------------------------
(***************************************************************************)
(* Proofs about Calibration for any number of browser tabs, geometries,    *)
(* patterns and touches.                                                   *)
(***************************************************************************)
EXTENDS Calibration, TLAPS

Drafts  == Geometries \cup {Blank}
Reasons == {"stopped", "error", "preempted"}

(* What a tab remembers inside of each call. *)
CallType ==
    [at : {"none", "written", "failed"}]
        \cup [at : {"called"}, saved : Drafts]
        \cup [at : {"starting", "started", "refused"}, ref : Sessions, draft : Drafts]
        \cup [at : {"saving", "writing"}, ref : 0..MaxStarts, gen : 0..MaxStarts, draft : Drafts]
        \cup [at : {"cancelling"}, ref : 0..MaxStarts, gen : 0..MaxStarts]

CallsTyped == call \in [Tabs -> CallType]

CalShape ==
    /\ CallsTyped
    /\ seq \in 0..MaxStarts /\ ref \in 0..MaxStarts /\ gen \in 0..MaxStarts
    /\ draft \in Drafts /\ saved \in Drafts
    /\ playing \in 0..Cast
    /\ onStops \subseteq Sessions \X Reasons
    /\ stops \subseteq (0..MaxStarts) \X (0..MaxStarts)

LEMMA InitShape == CalInit => CalShape
<1> SUFFICES ASSUME CalInit PROVE CalShape
  OBVIOUS
<1>1. Resting \in CallType
  BY DEF Resting, CallType
<1>2. CallsTyped
  BY <1>1 DEF CalInit, CallsTyped
<1>3. draft \in Drafts /\ saved \in Drafts
  BY DEF CalInit, Drafts
<1>4. seq = 0 /\ ref = 0 /\ gen = 0 /\ playing = 0 /\ onStops = {} /\ stops = {}
  BY DEF CalInit
<1> QED BY <1>2, <1>3, <1>4, CalibrationAssumption DEF CalShape, Cast

(* Taking one tab from one point of its call to the next. *)
LEMMA CallStep ==
  ASSUME CallsTyped, NEW t \in Tabs, NEW e \in CallType, Goes(t, e)
  PROVE  CallsTyped' /\ call'[t] = e /\ \A u \in Tabs \ {t} : call'[u] = call[u]
BY DEF CallsTyped, Goes

LEMMA StopsShape ==
  ASSUME CalShape, NEW r \in 0..MaxStarts, NEW g, StopsPattern(r, g)
  PROVE  /\ playing' \in 0..Cast
         /\ onStops' \subseteq Sessions \X Reasons
BY CalibrationAssumption DEF CalShape, StopsPattern, Sessions, Reasons, Cast

LEMMA ShapeStep == CalShape /\ [CalNext]_calVars => CalShape'
<1> SUFFICES ASSUME CalShape, [CalNext]_calVars PROVE CalShape'
  OBVIOUS
<1> USE CalibrationAssumption DEF CalShape
<1>1. ASSUME NEW t \in Tabs, Answer(t) PROVE CalShape'
  <2>1. CASE AlreadyRunning(t)
    <3>1. Goes(t, Resting) /\ Resting \in CallType
      BY <2>1 DEF AlreadyRunning, Resting, CallType
    <3> QED BY <2>1, <3>1, CallStep DEF AlreadyRunning, control
  <2>2. CASE BeginStart(t)
    <3> DEFINE e == [at |-> "starting", ref |-> seq + 1,
                     draft |-> IF state = "ended" THEN draft ELSE call[t].saved]
    <3>1. call[t] \in CallType /\ call[t].at = "called"
      BY <2>1, <2>2 DEF BeginStart, At, CallsTyped
    <3>2. call[t].saved \in Drafts /\ seq + 1 \in Sessions
      BY <2>2, <3>1 DEF BeginStart, CallType, Sessions
    <3>3. Goes(t, e) /\ e \in CallType
      BY <2>2, <3>2 DEF BeginStart, CallType
    <3> QED BY <2>2, <3>2, <3>3, CallStep DEF BeginStart, Sessions
  <2>3. CASE ManagerStarts(t)
    <3>1. PICK ok \in BOOLEAN :
             /\ playing' = IF ok THEN call[t].ref ELSE playing
             /\ Goes(t, [call[t] EXCEPT !.at = IF ok THEN "started" ELSE "refused"])
      BY <2>3 DEF ManagerStarts
    <3>2. call[t] \in [at : {"starting", "started", "refused"}, ref : Sessions, draft : Drafts]
      BY <2>3 DEF ManagerStarts, At, CallsTyped, CallType
    <3>3. [call[t] EXCEPT !.at = IF ok THEN "started" ELSE "refused"] \in CallType
      BY <3>2 DEF CallType
    <3>4. playing' \in 0..Cast
      BY <3>1, <3>2 DEF Sessions, Cast
    <3> QED BY <2>3, <3>1, <3>3, <3>4, CallStep DEF ManagerStarts, control
  <2>4. CASE StartRefused(t)
    <3>1. Goes(t, Resting) /\ Resting \in CallType
      BY <2>4 DEF StartRefused, Resting, CallType
    <3>2. CallsTyped'
      BY <3>1, CallStep
    <3> QED BY <2>4, <3>2 DEF StartRefused
  <2>5. CASE FinishStart(t)
    <3>1. Goes(t, Resting) /\ Resting \in CallType
      BY <2>5 DEF FinishStart, Resting, CallType
    <3>2. call[t].ref \in Sessions /\ call[t].draft \in Drafts
      BY <2>5 DEF FinishStart, At, CallsTyped, CallType
    <3>3. CallsTyped'
      BY <3>1, CallStep
    <3> QED BY <2>5, <3>2, <3>3 DEF FinishStart, Sessions
  <2>6. CASE CallStops(t)
    <3>1. /\ call[t].ref \in 0..MaxStarts
          /\ At(t, "saving") => [call[t] EXCEPT !.at = "writing"] \in CallType
      BY <2>6 DEF CallStops, At, CallsTyped, CallType
    <3>2. Resting \in CallType
      BY DEF Resting, CallType
    <3>3. PICK e \in CallType : Goes(t, e)
      BY <2>6, <3>1, <3>2 DEF CallStops
    <3>4. StopsPattern(call[t].ref, call[t].gen)
      BY <2>6 DEF CallStops
    <3>5. playing' \in 0..Cast /\ onStops' \subseteq Sessions \X Reasons
      BY <3>1, <3>4, StopsShape
    <3> QED BY <2>6, <3>3, <3>5, CallStep DEF CallStops, control
  <2>7. CASE Write(t)
    <3>1. PICK ok \in BOOLEAN :
             /\ saved' = IF ok THEN call[t].draft ELSE saved
             /\ Goes(t, [at |-> IF ok THEN "written" ELSE "failed"])
      BY <2>7 DEF Write
    <3>2. call[t].draft \in Drafts /\ [at |-> IF ok THEN "written" ELSE "failed"] \in CallType
      BY <2>7 DEF Write, At, CallsTyped, CallType
    <3> QED BY <2>7, <3>1, <3>2, CallStep DEF Write, control
  <2>8. CASE FinishSave(t)
    <3>1. Goes(t, Resting) /\ Resting \in CallType
      BY <2>8 DEF FinishSave, Resting, CallType
    <3> QED BY <2>8, <3>1, CallStep DEF FinishSave, Reset, Drafts
  <2> QED BY <1>1, <2>1, <2>2, <2>3, <2>4, <2>5, <2>6, <2>7, <2>8 DEF Answer
<1>2. ASSUME NEW t \in Tabs, Request(t) PROVE CalShape'
  <2>1. CASE ReadBridge(t)
    <3>1. Goes(t, [at |-> "called", saved |-> saved]) /\ [at |-> "called", saved |-> saved] \in CallType
      BY <2>1 DEF ReadBridge, CallType
    <3> QED BY <2>1, <3>1, CallStep DEF ReadBridge, control
  <2>2. CASE BeginSave(t)
    <3> DEFINE e == [at |-> "saving", ref |-> ref, gen |-> gen, draft |-> draft]
    <3>1. Goes(t, e) /\ e \in CallType
      BY <2>2 DEF BeginSave, CallType
    <3> QED BY <2>2, <3>1, CallStep DEF BeginSave, Detach
  <2>3. CASE Cancel(t)
    <3> DEFINE e == [at |-> "cancelling", ref |-> ref, gen |-> gen]
    <3>1. Goes(t, e) /\ e \in CallType
      BY <2>3 DEF Cancel, CallType
    <3>2. CallsTyped'
      BY <3>1, CallStep
    <3>3. draft' \in Drafts
      BY <2>3 DEF Cancel, Reset, Drafts
    <3> QED BY <2>3, <3>2, <3>3 DEF Cancel, Detach
  <2>4. ASSUME NEW g \in Geometries, Preview(t, g) PROVE CalShape'
    BY <2>4 DEF Preview, Drafts, CallsTyped
  <2> QED BY <1>2, <2>1, <2>2, <2>3, <2>4 DEF Request
<1>3. CASE Timer
  <2>1. CASE TimerFires
    BY <2>1 DEF TimerFires, CallsTyped
  <2>2. ASSUME NEW token \in fired, Expire(token) PROVE CalShape'
    BY <2>2 DEF Expire, Detach, CallsTyped
  <2>3. ASSUME NEW s \in stops, ExpireStops(s) PROVE CalShape'
    <3>1. StopsPattern(s[1], s[2]) /\ s[1] \in 0..MaxStarts
      BY <2>3 DEF ExpireStops
    <3>2. playing' \in 0..Cast /\ onStops' \subseteq Sessions \X Reasons
      BY <3>1, StopsShape
    <3> QED BY <2>3, <3>2 DEF ExpireStops, control, CallsTyped
  <2> QED BY <1>3, <2>1, <2>2, <2>3 DEF Timer
<1>4. CASE SessionEnds
  <2>1. /\ playing' \in {0, Cast}
        /\ onStops' \subseteq Sessions \X Reasons
    BY <1>4 DEF SessionEnds, Sessions, Reasons, Cast
  <2> QED BY <1>4, <2>1 DEF SessionEnds, control, CallsTyped, Cast
<1>5. ASSUME NEW o \in onStops, OnStop(o[1], o[2]) PROVE CalShape'
  BY <1>5 DEF OnStop, Detach, CallsTyped
<1>6. CASE UNCHANGED calVars
  BY <1>6 DEF calVars, control, CallsTyped
<1> QED BY <1>1, <1>2, <1>3, <1>4, <1>5, <1>6 DEF CalNext

-----------------------------------------------------------------------------
(* One tab at a time is inside of Start between its two lock sections, and *)
(* no calibration is active meanwhile.                                     *)
Inside(t) == call[t].at \in {"starting", "started", "refused"}

OneStarts ==
    /\ \A t \in Tabs : Inside(t) => starting
    /\ \A t, u \in Tabs : Inside(t) /\ Inside(u) => t = u
    /\ starting => state # "active"

LEMMA InitOneStarts == CalInit => OneStarts
<1> SUFFICES ASSUME CalInit PROVE OneStarts
  OBVIOUS
<1>1. \A t \in Tabs : ~Inside(t)
  BY DEF CalInit, Inside, Resting
<1>2. starting = FALSE
  BY DEF CalInit
<1> QED BY <1>1, <1>2 DEF OneStarts

(* A tab that moves without entering Start leaves the others alone.        *)
LEMMA InsideShrinks ==
  ASSUME CallsTyped, OneStarts, NEW t \in Tabs, NEW e \in CallType, Goes(t, e),
         e.at \in {"starting", "started", "refused"} => Inside(t),
         starting' = starting, starting' => state' # "active"
  PROVE  OneStarts'
<1>1. call'[t] = e /\ \A u \in Tabs \ {t} : call'[u] = call[u]
  BY CallStep
<1>2. \A u \in Tabs : Inside(u)' => Inside(u)
  BY <1>1 DEF Inside
<1> QED BY <1>2 DEF OneStarts

LEMMA OneStartsStep == CalShape /\ OneStarts /\ [CalNext]_calVars => OneStarts'
<1> SUFFICES ASSUME CalShape, OneStarts, [CalNext]_calVars PROVE OneStarts'
  OBVIOUS
<1>0. CallsTyped
  BY DEF CalShape
<1>1. ASSUME NEW t \in Tabs, Answer(t) PROVE OneStarts'
  <2>1. Resting \in CallType /\ Resting.at = "none" /\ call[t] \in CallType
    BY <1>0 DEF Resting, CallType, CallsTyped
  <2>2. CASE AlreadyRunning(t)
    <3>1. Goes(t, Resting) /\ starting' = starting /\ state' = state
      BY <2>2 DEF AlreadyRunning, control
    <3> QED BY <1>0, <2>1, <3>1, InsideShrinks DEF OneStarts
  <2>3. CASE BeginStart(t)
    <3>1. /\ ~starting /\ starting' = TRUE /\ state # "active" /\ state' = state
          /\ \E e : Goes(t, e)
      BY <2>3 DEF BeginStart
    <3>2. \A u \in Tabs \ {t} : call'[u] = call[u]
      BY <1>0, <3>1 DEF Goes, CallsTyped
    <3>3. \A u \in Tabs \ {t} : ~Inside(u)'
      BY <3>1, <3>2 DEF OneStarts, Inside
    <3> QED BY <3>1, <3>3 DEF OneStarts
  <2>4. CASE ManagerStarts(t)
    <3>1. call[t] \in [at : {"starting", "started", "refused"}, ref : Sessions, draft : Drafts]
      BY <2>1, <2>4 DEF ManagerStarts, At, CallType
    <3>2. PICK ok \in BOOLEAN : Goes(t, [call[t] EXCEPT !.at = IF ok THEN "started" ELSE "refused"])
      BY <2>4 DEF ManagerStarts
    <3>3. [call[t] EXCEPT !.at = IF ok THEN "started" ELSE "refused"] \in CallType
      BY <3>1 DEF CallType
    <3>4. Inside(t) /\ starting' = starting /\ state' = state
      BY <2>4 DEF ManagerStarts, At, Inside, control
    <3> QED BY <1>0, <3>2, <3>3, <3>4, InsideShrinks DEF OneStarts
  <2>5. CASE StartRefused(t) \/ FinishStart(t)
    <3>1. Goes(t, Resting) /\ starting' = FALSE /\ Inside(t)
      BY <2>5 DEF StartRefused, FinishStart, At, Inside
    <3>2. call'[t] = Resting /\ \A u \in Tabs \ {t} : call'[u] = call[u]
      BY <1>0, <2>1, <3>1, CallStep
    <3>3. \A u \in Tabs : ~Inside(u)'
      BY <2>1, <3>1, <3>2 DEF OneStarts, Inside
    <3> QED BY <3>1, <3>3 DEF OneStarts
  <2>6. CASE CallStops(t)
    <3>1. /\ starting' = starting /\ state' = state
          /\ \/ Goes(t, Resting)
             \/ At(t, "saving") /\ Goes(t, [call[t] EXCEPT !.at = "writing"])
      BY <2>6 DEF CallStops, control
    <3>2. At(t, "saving") =>
             [call[t] EXCEPT !.at = "writing"] \in CallType
             /\ [call[t] EXCEPT !.at = "writing"].at = "writing"
      BY <2>1 DEF At, CallType
    <3> QED BY <1>0, <2>1, <3>1, <3>2, InsideShrinks DEF OneStarts
  <2>7. CASE Write(t)
    <3>1. PICK ok \in BOOLEAN : Goes(t, [at |-> IF ok THEN "written" ELSE "failed"])
      BY <2>7 DEF Write
    <3>2. [at |-> IF ok THEN "written" ELSE "failed"] \in CallType
      BY DEF CallType
    <3>3. starting' = starting /\ state' = state
      BY <2>7 DEF Write, control
    <3> QED BY <1>0, <3>1, <3>2, <3>3, InsideShrinks DEF OneStarts
  <2>8. CASE FinishSave(t)
    <3>1. Goes(t, Resting) /\ starting' = starting /\ state' # "active"
      BY <2>8 DEF FinishSave, Reset
    <3> QED BY <1>0, <2>1, <3>1, InsideShrinks
  <2> QED BY <1>1, <2>2, <2>3, <2>4, <2>5, <2>6, <2>7, <2>8 DEF Answer
<1>2. ASSUME NEW t \in Tabs, Request(t) PROVE OneStarts'
  <2>1. CASE ReadBridge(t)
    <3>1. Goes(t, [at |-> "called", saved |-> saved]) /\ [at |-> "called", saved |-> saved] \in CallType
      BY <2>1 DEF ReadBridge, CallType, CalShape
    <3>2. starting' = starting /\ state' = state
      BY <2>1 DEF ReadBridge, control
    <3> QED BY <1>0, <3>1, <3>2, InsideShrinks DEF OneStarts
  <2>2. CASE BeginSave(t)
    <3> DEFINE e == [at |-> "saving", ref |-> ref, gen |-> gen, draft |-> draft]
    <3>1. Goes(t, e) /\ e \in CallType /\ starting' = starting /\ state' = state
      BY <2>2 DEF BeginSave, CallType, CalShape
    <3> QED BY <1>0, <3>1, InsideShrinks DEF OneStarts
  <2>3. CASE Cancel(t)
    <3> DEFINE e == [at |-> "cancelling", ref |-> ref, gen |-> gen]
    <3>1. Goes(t, e) /\ e \in CallType /\ starting' = starting /\ state' # "active"
      BY <2>3 DEF Cancel, Reset, CallType, CalShape
    <3> QED BY <1>0, <3>1, InsideShrinks
  <2>4. ASSUME NEW g \in Geometries, Preview(t, g) PROVE OneStarts'
    BY <2>4 DEF Preview, OneStarts, Inside
  <2> QED BY <1>2, <2>1, <2>2, <2>3, <2>4 DEF Request
<1>3. CASE Timer \/ SessionEnds \/ (\E o \in onStops : OnStop(o[1], o[2])) \/ UNCHANGED calVars
  <2>1. call' = call /\ starting' = starting /\ (state' = state \/ state' = "ended")
    BY <1>3 DEF Timer, TimerFires, Expire, ExpireStops, SessionEnds, OnStop, calVars, control
  <2> QED BY <2>1 DEF OneStarts, Inside
<1> QED BY <1>1, <1>2, <1>3 DEF CalNext

-----------------------------------------------------------------------------
(* A session that plays, or whose OnStop is under way.                     *)
Shown(r) == playing = r \/ \E o \in onStops : o[1] = r

(* A session is not forgotten by the bridge before its OnStop has run.     *)
LEMMA ShownStays ==
  ASSUME CalShape, [CalNext]_calVars, NEW r \in Sessions, Shown(r),
         \A o \in onStops : o[1] = r => ~OnStop(o[1], o[2])
  PROVE  playing' = r \/ \E o \in onStops' : o[1] = r
<1> USE CalibrationAssumption DEF CalShape, Sessions
<1>1. CASE playing' = playing /\ onStops \subseteq onStops'
  BY <1>1 DEF Shown
<1>2. ASSUME NEW q, NEW g, StopsPattern(q, g)
      PROVE  playing' = r \/ \E o \in onStops' : o[1] = r
  <2>1. CASE playing' = playing /\ onStops' = onStops
    BY <2>1 DEF Shown
  <2>2. CASE q = playing /\ onStops' = onStops \cup {<<q, "stopped">>}
    <3>1. <<q, "stopped">> \in onStops' /\ <<q, "stopped">>[1] = q /\ onStops \subseteq onStops'
      BY <2>2
    <3> QED BY <2>2, <3>1 DEF Shown
  <2> QED BY <1>2, <2>1, <2>2 DEF StopsPattern
<1>3. ASSUME NEW t \in Tabs, ManagerStarts(t)
      PROVE  playing' = r \/ \E o \in onStops' : o[1] = r
  <2>1. onStops' = onStops /\ (playing # 0 => playing' = playing)
    BY <1>3 DEF ManagerStarts
  <2> QED BY <2>1 DEF Shown
<1>4. CASE SessionEnds
  <2>1. PICK reason \in Reasons :
           onStops' = IF playing \in Sessions THEN onStops \cup {<<playing, reason>>} ELSE onStops
    <3>1. PICK end \in {<<0, "error">>, <<0, "stopped">>, <<Cast, "preempted">>} :
             onStops' = IF playing \in Sessions THEN onStops \cup {<<playing, end[2]>>} ELSE onStops
      BY <1>4 DEF SessionEnds
    <3>2. end[2] \in Reasons
      BY DEF Reasons
    <3> QED BY <3>1, <3>2
  <2>2. CASE playing = r
    <3>1. <<r, reason>> \in onStops' /\ <<r, reason>>[1] = r
      BY <2>1, <2>2
    <3> QED BY <3>1
  <2>3. CASE playing # r
    <3>1. onStops \subseteq onStops'
      BY <2>1
    <3> QED BY <2>3, <3>1 DEF Shown
  <2> QED BY <2>2, <2>3
<1>5. ASSUME NEW o \in onStops, OnStop(o[1], o[2])
      PROVE  playing' = r \/ \E p \in onStops' : p[1] = r
  <2>1. o[1] # r /\ onStops' = onStops \ {<<o[1], o[2]>>} /\ playing' = playing
    BY <1>5 DEF OnStop
  <2> QED BY <2>1 DEF Shown
<1>6. ASSUME NEW t \in Tabs, Answer(t) \/ Request(t)
      PROVE  \/ playing' = playing /\ onStops \subseteq onStops'
             \/ ManagerStarts(t)
             \/ StopsPattern(call[t].ref, call[t].gen)
  BY <1>6 DEF Answer, Request, AlreadyRunning, BeginStart, StartRefused, FinishStart, CallStops,
              Write, FinishSave, ReadBridge, BeginSave, Cancel, Preview
<1>7. CASE Timer
  <2>1. \/ playing' = playing /\ onStops' = onStops
        \/ \E s \in stops : StopsPattern(s[1], s[2])
    BY <1>7 DEF Timer, TimerFires, Expire, ExpireStops
  <2> QED BY <1>1, <1>2, <2>1
<1>8. CASE UNCHANGED calVars
  BY <1>1, <1>8 DEF calVars
<1> QED BY <1>1, <1>2, <1>3, <1>4, <1>5, <1>6, <1>7, <1>8 DEF CalNext

(* The strengthening of DeadPatternIsNoticed: a pattern is noticed from the*)
(* moment the manager has started it, before Start knows; and an active    *)
(* calibration is without a session only while a tab saves it.             *)
Noticed ==
    /\ \A t \in Tabs : At(t, "started") /\ ref = call[t].ref => Shown(ref)
    /\ state = "active" /\ ref # 0 => Shown(ref)
    /\ state = "active" /\ ref = 0 => \E t \in Tabs : BeingSaved(t)

NoticedInv == CalShape /\ OneStarts /\ Noticed /\ PatternShowsDraft

(* The OnStop of the controller's own session makes it notice.             *)
LEMMA OwnStop ==
  ASSUME NoticedInv, NEW o \in onStops, o[1] = ref, OnStop(o[1], o[2])
  PROVE  Noticed' /\ PatternShowsDraft'
<1>1. ref' = 0 /\ state' = "ended" /\ call' = call
  BY DEF OnStop, Detach
<1>2. \A t \in Tabs : At(t, "started") => call[t].ref # 0
  BY CalibrationAssumption DEF NoticedInv, CalShape, CallsTyped, CallType, At, Sessions
<1> QED BY <1>1, <1>2 DEF Noticed, At, PatternShowsDraft

(* Any other step: what was shown still is, or its OnStop is still to come.*)
OwnStops == \E o \in onStops : o[1] = ref /\ OnStop(o[1], o[2])

LEMMA RefStaysShown ==
  ASSUME NoticedInv, [CalNext]_calVars, ~OwnStops, ref # 0, Shown(ref), ref' = ref
  PROVE  Shown(ref)'
<1>1. PICK r \in Sessions : r = ref
  BY CalibrationAssumption DEF NoticedInv, CalShape, Sessions
<1>2. \A o \in onStops : o[1] = r => ~OnStop(o[1], o[2])
  BY <1>1 DEF OwnStops
<1>3. playing' = r \/ \E o \in onStops' : o[1] = r
  BY <1>1, <1>2, ShownStays DEF NoticedInv
<1> QED BY <1>1, <1>3 DEF Shown

StartedShown == \A t \in Tabs : At(t, "started") /\ ref = call[t].ref => Shown(ref)

LEMMA StartedStays ==
  ASSUME NoticedInv, [CalNext]_calVars, ~OwnStops, ref' = ref \/ ref' = 0,
         \A u \in Tabs : At(u, "started")' => call'[u] = call[u]
  PROVE  StartedShown'
<1> SUFFICES ASSUME NEW t \in Tabs, At(t, "started")', ref' = call'[t].ref
             PROVE  Shown(ref)'
  BY DEF StartedShown
<1>1. call'[t] = call[t] /\ At(t, "started")
  BY DEF At
<1>2. call[t].ref # 0
  BY <1>1, CalibrationAssumption DEF NoticedInv, CalShape, CallsTyped, CallType, At, Sessions
<1>3. ref' = ref /\ ref = call[t].ref /\ ref # 0
  BY <1>1, <1>2
<1> QED BY <1>1, <1>3, RefStaysShown DEF NoticedInv, Noticed

(* A step that leaves the controller's own fields alone.                   *)
LEMMA AsideStays ==
  ASSUME NoticedInv, [CalNext]_calVars, ~OwnStops,
         ref' = ref, state' = state, draft' = draft, pattern' = pattern,
         StartedShown', \A u \in Tabs : BeingSaved(u) => BeingSaved(u)'
  PROVE  Noticed' /\ PatternShowsDraft'
<1>1. state = "active" /\ ref # 0 => Shown(ref)'
  BY RefStaysShown DEF NoticedInv, Noticed
<1> QED BY <1>1 DEF NoticedInv, Noticed, StartedShown, PatternShowsDraft

(* A step after which the calibration is not active.                       *)
LEMMA InactiveStays ==
  ASSUME state' # "active", StartedShown'
  PROVE  Noticed' /\ PatternShowsDraft'
BY DEF Noticed, StartedShown, PatternShowsDraft

LEMMA AnswerNoticed ==
  ASSUME NoticedInv, [CalNext]_calVars, ~OwnStops, NEW t \in Tabs, Answer(t)
  PROVE  Noticed' /\ PatternShowsDraft'
<1>0. CallsTyped /\ CalShape /\ OneStarts /\ Noticed /\ PatternShowsDraft /\ call[t] \in CallType
  BY DEF NoticedInv, CalShape, CallsTyped
<1>1. Resting \in CallType /\ Resting.at = "none"
  BY DEF Resting, CallType
<1>2. CASE AlreadyRunning(t)
  <2>1. Goes(t, Resting) /\ ref' = ref /\ state' = state /\ draft' = draft /\ pattern' = pattern
        /\ call[t].at = "called"
    BY <1>2 DEF AlreadyRunning, control, At
  <2>2. call'[t] = Resting /\ \A u \in Tabs \ {t} : call'[u] = call[u]
    BY <1>0, <1>1, <2>1, CallStep
  <2>3. \A u \in Tabs : At(u, "started")' => call'[u] = call[u]
    BY <1>1, <2>2 DEF At
  <2>4. \A u \in Tabs : BeingSaved(u) => BeingSaved(u)'
    BY <2>1, <2>2 DEF BeingSaved
  <2> QED BY <2>1, <2>3, <2>4, StartedStays, AsideStays
<1>3. CASE BeginStart(t)
  <2>1. /\ ~starting /\ state' = state /\ state # "active"
        /\ \E e : e.at = "starting" /\ Goes(t, e)
    BY <1>3 DEF BeginStart
  <2>2. call'[t].at = "starting" /\ \A u \in Tabs \ {t} : call'[u] = call[u]
    BY <1>0, <2>1 DEF Goes, CallsTyped
  <2>3. \A u \in Tabs : ~At(u, "started")'
    BY <1>0, <2>1, <2>2 DEF At, OneStarts, Inside
  <2> QED BY <2>1, <2>3, InactiveStays DEF StartedShown
<1>4. CASE ManagerStarts(t)
  <2>1. call[t] \in [at : {"starting", "started", "refused"}, ref : Sessions, draft : Drafts]
    BY <1>0, <1>4 DEF ManagerStarts, At, CallType
  <2>2. PICK ok \in BOOLEAN :
           /\ playing' = IF ok THEN call[t].ref ELSE playing
           /\ Goes(t, [call[t] EXCEPT !.at = IF ok THEN "started" ELSE "refused"])
    BY <1>4 DEF ManagerStarts
  <2>3. [call[t] EXCEPT !.at = IF ok THEN "started" ELSE "refused"] \in CallType
    BY <2>1 DEF CallType
  <2>4. /\ call'[t] = [call[t] EXCEPT !.at = IF ok THEN "started" ELSE "refused"]
        /\ \A u \in Tabs \ {t} : call'[u] = call[u]
    BY <1>0, <2>2, <2>3, CallStep
  <2>5. Inside(t) /\ ref' = ref /\ state' = state
    BY <1>4 DEF ManagerStarts, At, Inside, control
  <2>6. state' # "active"
    BY <1>0, <2>5 DEF OneStarts
  <2>7. StartedShown'
    <3> SUFFICES ASSUME NEW u \in Tabs, At(u, "started")', ref' = call'[u].ref PROVE Shown(ref)'
      BY DEF StartedShown
    <3>1. u = t
      BY <1>0, <2>4, <2>5 DEF At, Inside, OneStarts
    <3>2. call'[t].ref = call[t].ref /\ (call'[t].at = "started" => ok)
      BY <2>1, <2>4
    <3>3. playing' = ref'
      BY <2>2, <3>1, <3>2 DEF At
    <3> QED BY <3>3 DEF Shown
  <2> QED BY <2>6, <2>7, InactiveStays
<1>5. CASE StartRefused(t)
  <2>1. Goes(t, Resting) /\ Inside(t) /\ state' = state
    BY <1>5 DEF StartRefused, At, Inside
  <2>2. call'[t] = Resting /\ \A u \in Tabs \ {t} : call'[u] = call[u]
    BY <1>0, <1>1, <2>1, CallStep
  <2>3. state' # "active" /\ \A u \in Tabs : ~At(u, "started")'
    BY <1>0, <1>1, <2>1, <2>2 DEF OneStarts, At, Inside
  <2> QED BY <2>3, InactiveStays DEF StartedShown
<1>6. CASE FinishStart(t)
  <2>1. Goes(t, Resting) /\ Inside(t) /\ At(t, "started") /\ ref' = ref
    BY <1>6 DEF FinishStart, At, Inside
  <2>2. call'[t] = Resting /\ \A u \in Tabs \ {t} : call'[u] = call[u]
    BY <1>0, <1>1, <2>1, CallStep
  <2>3. StartedShown'
    BY <1>0, <1>1, <2>1, <2>2 DEF OneStarts, At, Inside, StartedShown
  <2>4. CASE StillOurs(t)
    <3>1. ref = call[t].ref /\ draft' = pattern'
      BY <1>6, <2>4 DEF StillOurs, FinishStart
    <3>2. ref # 0
      BY <1>0, <2>1, <3>1, CalibrationAssumption DEF At, CallType, Sessions
    <3>3. Shown(ref)'
      BY <1>0, <2>1, <3>1, <3>2, RefStaysShown DEF Noticed
    <3> QED BY <2>1, <2>3, <3>1, <3>2, <3>3 DEF Noticed, StartedShown, PatternShowsDraft
  <2>5. CASE ~StillOurs(t)
    <3>1. state' = state
      BY <1>6, <2>5 DEF FinishStart
    <3>2. state' # "active"
      BY <1>0, <2>1, <3>1 DEF OneStarts
    <3> QED BY <2>3, <3>2, InactiveStays
  <2> QED BY <2>4, <2>5
<1>7. CASE CallStops(t) \/ Write(t)
  <2>1. PICK e \in CallType :
           /\ Goes(t, e) /\ e.at # "started"
           /\ BeingSaved(t) => e.at \in {"writing", "written", "failed"}
    <3>1. CASE CallStops(t)
      <4>1. CASE At(t, "saving")
        <5>1. [call[t] EXCEPT !.at = "writing"] \in CallType
              /\ [call[t] EXCEPT !.at = "writing"].at = "writing"
          BY <1>0, <4>1 DEF At, CallType
        <5> QED BY <3>1, <4>1, <5>1 DEF CallStops
      <4>2. CASE At(t, "cancelling")
        BY <1>1, <3>1, <4>2 DEF CallStops, At, BeingSaved
      <4> QED BY <3>1, <4>1, <4>2 DEF CallStops
    <3>2. CASE Write(t)
      <4>1. PICK ok \in BOOLEAN : Goes(t, [at |-> IF ok THEN "written" ELSE "failed"])
        BY <3>2 DEF Write
      <4>2. [at |-> IF ok THEN "written" ELSE "failed"] \in CallType
        BY DEF CallType
      <4> QED BY <4>1, <4>2
    <3> QED BY <1>7, <3>1, <3>2
  <2>2. ref' = ref /\ state' = state /\ draft' = draft /\ pattern' = pattern
    BY <1>7 DEF CallStops, Write, control
  <2>3. call'[t] = e /\ \A u \in Tabs \ {t} : call'[u] = call[u]
    BY <1>0, <2>1, CallStep
  <2>4. \A u \in Tabs : At(u, "started")' => call'[u] = call[u]
    BY <2>1, <2>3 DEF At
  <2>5. \A u \in Tabs : BeingSaved(u) => BeingSaved(u)'
    BY <2>1, <2>3 DEF BeingSaved
  <2> QED BY <2>2, <2>4, <2>5, StartedStays, AsideStays
<1>8. CASE FinishSave(t)
  <2>1. Goes(t, Resting) /\ ref' = ref /\ state' # "active"
    BY <1>8 DEF FinishSave, Reset
  <2>2. call'[t] = Resting /\ \A u \in Tabs \ {t} : call'[u] = call[u]
    BY <1>0, <1>1, <2>1, CallStep
  <2>3. \A u \in Tabs : At(u, "started")' => call'[u] = call[u]
    BY <1>1, <2>2 DEF At
  <2> QED BY <2>1, <2>3, StartedStays, InactiveStays
<1> QED BY <1>2, <1>3, <1>4, <1>5, <1>6, <1>7, <1>8 DEF Answer

LEMMA RequestNoticed ==
  ASSUME NoticedInv, [CalNext]_calVars, ~OwnStops, NEW t \in Tabs, Request(t)
  PROVE  Noticed' /\ PatternShowsDraft'
<1>0. CallsTyped /\ CalShape /\ OneStarts /\ Noticed /\ PatternShowsDraft
  BY DEF NoticedInv, CalShape
<1>1. CASE ReadBridge(t)
  <2> DEFINE e == [at |-> "called", saved |-> saved]
  <2>1. Goes(t, e) /\ e \in CallType /\ call[t].at = "none"
        /\ ref' = ref /\ state' = state /\ draft' = draft /\ pattern' = pattern
    BY <1>0, <1>1 DEF ReadBridge, control, At, CallType, CalShape
  <2>2. call'[t] = e /\ \A u \in Tabs \ {t} : call'[u] = call[u]
    BY <1>0, <2>1, CallStep
  <2>3. \A u \in Tabs : At(u, "started")' => call'[u] = call[u]
    BY <2>2 DEF At
  <2>4. \A u \in Tabs : BeingSaved(u) => BeingSaved(u)'
    BY <2>1, <2>2 DEF BeingSaved
  <2> QED BY <2>1, <2>3, <2>4, StartedStays, AsideStays
<1>2. CASE BeginSave(t)
  <2> DEFINE e == [at |-> "saving", ref |-> ref, gen |-> gen, draft |-> draft]
  <2>1. Goes(t, e) /\ e \in CallType /\ ref' = 0
    BY <1>0, <1>2 DEF BeginSave, Detach, CallType, CalShape
  <2>2. call'[t] = e /\ \A u \in Tabs \ {t} : call'[u] = call[u]
    BY <1>0, <2>1, CallStep
  <2>3. \A u \in Tabs : At(u, "started")' => call'[u] = call[u]
    BY <2>2 DEF At
  <2>4. StartedShown' /\ BeingSaved(t)'
    BY <2>1, <2>2, <2>3, StartedStays DEF BeingSaved
  <2> QED BY <2>1, <2>4 DEF Noticed, StartedShown, PatternShowsDraft
<1>3. CASE Cancel(t)
  <2> DEFINE e == [at |-> "cancelling", ref |-> ref, gen |-> gen]
  <2>1. Goes(t, e) /\ e \in CallType /\ ref' = 0 /\ state' # "active"
    BY <1>0, <1>3 DEF Cancel, Detach, Reset, CallType, CalShape
  <2>2. call'[t] = e /\ \A u \in Tabs \ {t} : call'[u] = call[u]
    BY <1>0, <2>1, CallStep
  <2>3. \A u \in Tabs : At(u, "started")' => call'[u] = call[u]
    BY <2>2 DEF At
  <2> QED BY <2>1, <2>3, StartedStays, InactiveStays
<1>4. ASSUME NEW g \in Geometries, Preview(t, g) PROVE Noticed' /\ PatternShowsDraft'
  <2>1. /\ state = "active" /\ ref # 0 /\ ref' = ref /\ call' = call /\ draft' = pattern'
    BY <1>4 DEF Preview
  <2>2. StartedShown' /\ Shown(ref)'
    BY <1>0, <2>1, StartedStays, RefStaysShown DEF Noticed
  <2> QED BY <2>1, <2>2 DEF Noticed, StartedShown, PatternShowsDraft
<1> QED BY <1>1, <1>2, <1>3, <1>4 DEF Request

LEMMA NoticedStep == NoticedInv /\ [CalNext]_calVars => NoticedInv'
<1> SUFFICES ASSUME NoticedInv, [CalNext]_calVars PROVE Noticed' /\ PatternShowsDraft'
  BY ShapeStep, OneStartsStep DEF NoticedInv
<1>1. CASE OwnStops
  BY <1>1, OwnStop DEF OwnStops
<1>2. CASE ~OwnStops
  <2>1. ASSUME NEW t \in Tabs, Answer(t) \/ Request(t) PROVE Noticed' /\ PatternShowsDraft'
    BY <1>2, <2>1, AnswerNoticed, RequestNoticed
  <2>2. ASSUME call' = call, ref' = ref, state' = state, draft' = draft, pattern' = pattern
        PROVE  Noticed' /\ PatternShowsDraft'
    <3>1. \A u \in Tabs : BeingSaved(u) => BeingSaved(u)'
      BY <2>2 DEF BeingSaved
    <3>2. StartedShown'
      BY <1>2, <2>2, StartedStays
    <3> QED BY <1>2, <2>2, <3>1, <3>2, AsideStays
  <2>3. CASE TimerFires \/ SessionEnds \/ UNCHANGED calVars
    BY <2>2, <2>3 DEF TimerFires, SessionEnds, calVars, control
  <2>4. ASSUME NEW s \in stops, ExpireStops(s) PROVE Noticed' /\ PatternShowsDraft'
    BY <2>2, <2>4 DEF ExpireStops, control
  <2>5. ASSUME NEW token \in fired, Expire(token) PROVE Noticed' /\ PatternShowsDraft'
    <3>1. CASE state' = "ended" /\ ref' = 0 /\ call' = call
      <4>1. StartedShown'
        BY <1>2, <3>1, StartedStays
      <4> QED BY <3>1, <4>1, InactiveStays
    <3>2. CASE UNCHANGED <<state, endReason, ref, gen, pattern, activity, armed, stops>>
      BY <2>2, <2>5, <3>2 DEF Expire
    <3> QED BY <2>5, <3>1, <3>2 DEF Expire, Detach
  <2>6. ASSUME NEW o \in onStops, OnStop(o[1], o[2]) PROVE Noticed' /\ PatternShowsDraft'
    <3>1. o[1] # ref
      BY <1>2, <2>6 DEF OwnStops
    <3> QED BY <2>2, <2>6, <3>1 DEF OnStop
  <2> QED BY <2>1, <2>3, <2>4, <2>5, <2>6 DEF CalNext, Timer
<1> QED BY <1>1, <1>2

LEMMA NoticedInvariance == CalSpec => []NoticedInv
<1>1. CalInit => NoticedInv
  <2> SUFFICES ASSUME CalInit PROVE Noticed /\ PatternShowsDraft
    BY InitShape, InitOneStarts DEF NoticedInv
  <2>1. state = "idle" /\ \A t \in Tabs : call[t].at = "none"
    BY DEF CalInit, Resting
  <2> QED BY <2>1 DEF Noticed, PatternShowsDraft, At
<1> QED BY <1>1, NoticedStep, PTL DEF CalSpec

(* Whatever the tabs, the timer and other casts do between the halves of a *)
(* call: an active calibration that nobody saves has its pattern on the    *)
(* CRT, or an OnStop that will end it is under way.                        *)
THEOREM DeadPatternsAreNoticed == CalSpec => []DeadPatternIsNoticed
<1>1. NoticedInv => DeadPatternIsNoticed
  BY DEF NoticedInv, Noticed, DeadPatternIsNoticed, Shown
<1> QED BY <1>1, NoticedInvariance, PTL

(* Preview never draws on a pattern that is gone, and what the CRT shows is*)
(* the draft that Save would write.                                        *)
THEOREM DraftIsShown == CalSpec => []PatternShowsDraft
<1>1. NoticedInv => PatternShowsDraft
  BY DEF NoticedInv
<1> QED BY <1>1, NoticedInvariance, PTL

-----------------------------------------------------------------------------
(* The armed timer is that of the latest activity, and has not fired.      *)
Tokens ==
    /\ activity \in Nat /\ armed \in {0, activity}
    /\ fired \subseteq 0..activity
    /\ armed # 0 => armed \notin fired

LEMMA TokensStep == Tokens /\ [CalNext]_calVars => Tokens'
<1> SUFFICES ASSUME Tokens, [CalNext]_calVars PROVE Tokens'
  OBVIOUS
<1> USE DEF Tokens
<1>1. CASE activity' = activity /\ armed' = armed /\ fired' = fired
  BY <1>1
<1>2. CASE Touch /\ fired' = fired
  BY <1>2 DEF Touch
<1>3. CASE activity' = activity /\ armed' = 0 /\ fired' \subseteq fired
  BY <1>3
<1>4. ASSUME NEW t \in Tabs, Answer(t) \/ Request(t) PROVE Tokens'
  <2>1. \/ activity' = activity /\ armed' = armed /\ fired' = fired
        \/ Touch /\ fired' = fired
        \/ activity' = activity /\ armed' = 0 /\ fired' = fired
    BY <1>4 DEF Answer, Request, AlreadyRunning, BeginStart, ManagerStarts, StartRefused,
                FinishStart, CallStops, Write, FinishSave, ReadBridge, BeginSave, Cancel, Preview,
                Detach, control
  <2> QED BY <1>1, <1>2, <1>3, <2>1
<1>5. CASE Timer
  <2>1. CASE TimerFires
    BY <2>1 DEF TimerFires
  <2>2. ASSUME NEW token \in fired, Expire(token) PROVE Tokens'
    BY <2>2 DEF Expire, Detach
  <2>3. ASSUME NEW s \in stops, ExpireStops(s) PROVE Tokens'
    BY <1>1, <2>3 DEF ExpireStops, control
  <2> QED BY <1>5, <2>1, <2>2, <2>3 DEF Timer
<1>6. CASE SessionEnds \/ UNCHANGED calVars
  BY <1>1, <1>6 DEF SessionEnds, calVars, control
<1>7. ASSUME NEW o \in onStops, OnStop(o[1], o[2]) PROVE Tokens'
  BY <1>1, <1>3, <1>7 DEF OnStop, Detach
<1> QED BY <1>4, <1>5, <1>6, <1>7 DEF CalNext

(* Only the timer of the latest activity ends a calibration: an older one  *)
(* that fired and waits for the mutex does nothing.                        *)
THEOREM ActivityHonoured == CalSpec => ActivityIsHonoured
<1>1. CalInit => Tokens
  <2> SUFFICES ASSUME CalInit PROVE Tokens
    OBVIOUS
  <2>1. activity = 0 /\ armed = 0 /\ fired = {}
    BY DEF CalInit
  <2> QED BY <2>1 DEF Tokens
<1>2. Tokens /\ [CalNext]_calVars =>
          [armed # 0 => (endReason' = "timeout" => endReason = "timeout")]_calVars
  <2> SUFFICES ASSUME Tokens, CalNext, armed # 0, endReason' = "timeout", endReason # "timeout"
               PROVE  FALSE
    OBVIOUS
  <2>1. ASSUME NEW t \in Tabs, Answer(t) \/ Request(t) PROVE FALSE
    BY <2>1 DEF Answer, Request, AlreadyRunning, BeginStart, ManagerStarts, StartRefused,
                FinishStart, Activate, CallStops, Write, FinishSave, Reset, ReadBridge, BeginSave,
                Cancel, Preview, control
  <2>2. CASE Timer
    <3>1. ASSUME NEW token \in fired, Expire(token) PROVE FALSE
      BY <3>1 DEF Expire, Latest, Tokens
    <3>2. CASE TimerFires \/ \E s \in stops : ExpireStops(s)
      BY <3>2 DEF TimerFires, ExpireStops, control
    <3> QED BY <2>2, <3>1, <3>2 DEF Timer
  <2>3. CASE SessionEnds
    BY <2>3 DEF SessionEnds, control
  <2>4. ASSUME NEW o \in onStops, OnStop(o[1], o[2]) PROVE FALSE
    BY <2>4 DEF OnStop
  <2> QED BY <2>1, <2>2, <2>3, <2>4 DEF CalNext
<1> QED BY <1>1, <1>2, TokensStep, PTL DEF CalSpec, ActivityIsHonoured
=============================================================================
