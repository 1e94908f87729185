---------------------------- MODULE StreamQueue ----------------------------
(***************************************************************************)
(* The streams adapter (internal/adapters/streams): its active queue, the  *)
(* attempts to play the queue's current item, and what the manager's OnStop*)
(* goroutines do to both.                                                  *)
(*                                                                         *)
(* a.mu is held for one action at most.  a.playbackMu is held across a call*)
(* of the manager (`lock').  Between two actions of one call anything else *)
(* may happen: other requests, OnStop, the end of the session, casts of    *)
(* other adapters.  Queues are objects: a guarded move works on the active *)
(* one and keeps a clone of it, so `active' is an index into `queues'.     *)
(*                                                                         *)
(* The session manager is `owner': the capture of the attempt that started *)
(* the session.  An AdapterRef is the queue's SessionID and the ItemToken; *)
(* since no ref starts twice (NothingComesBack), a guard by ref and        *)
(* generation is a guard by ref.                                           *)
(***************************************************************************)
EXTENDS Naturals, Sequences

CONSTANTS
    Threads,      \* goroutines that are in the adapter at the same time
    Clients,      \* the clients of an instance, of which a behaviour has one:
                  \*   users: the threads their requests run on
                  \*   asks:  what they request, of AllRequests
                  \*   kinds: the queues they start, of AllKinds
                  \*   most:  bound on their requests
    Items,        \* number of items of a list
    MaxFailures,  \* cfg.MaxConsecutiveFailures
    MaxEnds       \* bound on sessions that end by themselves and foreign casts

Free == "free"

(* Config.Validate wants at least one failure. *)
ASSUME StreamQueueAssumption == Free \notin Threads /\ MaxFailures \in Nat \ {0}

AllRequests == {"start", "handoff", "move", "replay", "stop", "drop"}
(* A channel (which loops; "first" repeats all but its first item), a      *)
(* pasted link, or a channel of one direct stream.                         *)
AllKinds == {"list", "first", "adhoc", "live"}

VARIABLES
    client,    \* the client of this behaviour
    queues,    \* the queues built so far
    active,    \* a.active: an index of queues, or Nil
    expected,  \* a.expectedStops
    bad,       \* a.badItems
    lock,      \* who holds a.playbackMu, or Free
    call,      \* per thread: the call it is inside of
    owner,     \* the manager's session
    onStops,   \* OnStop goroutines under way: <<capture, reason>>
    buffers,   \* the AdapterRefs whose HLS buffer is open
    played,    \* the AdapterRefs that owned the bridge
    stopped,   \* the AdapterRefs a user stopped
    requests, ends   \* for the bounds

vars == <<client, queues, active, expected, bad, lock, call, owner, onStops, buffers, played, stopped,
          requests, ends>>
bridge == <<owner, onStops, played, stopped>>
bounds == <<requests, ends, client>>

Nil     == 0
Resting == [pc |-> "none"]
Capture(sid, token, gen, item) == [sid |-> sid, token |-> token, gen |-> gen, item |-> item]
Nobody  == Capture(0, 0, 0, 0)
Foreign == Capture(0, 1, 0, 0)   \* a session of any other adapter
Ref(c)  == <<c.sid, c.token>>
NoRef   == Ref(Nobody)
Streams(c) == c.sid # 0

Init ==
    /\ client \in Clients
    /\ queues = <<>> /\ active = Nil /\ expected = {} /\ bad = {}
    /\ lock = Free /\ call = [t \in Threads |-> Resting]
    /\ owner \in {Nobody, Foreign} /\ onStops = {} /\ buffers = {} /\ played = {} /\ stopped = {}
    /\ requests = 0 /\ ends = 0

At(t, pc)      == call[t].pc = pc
Goes(t, where) == call' = [call EXCEPT ![t] = where]
To(t, pc)      == Goes(t, [call[t] EXCEPT !.pc = pc])
Ends(t)        == Goes(t, Resting)

-----------------------------------------------------------------------------
(* Queues.                                                                 *)

Version(q)     == [sid |-> q.sid, gen |-> q.gen]
CaptureOf(q)   == Capture(q.sid, q.token, q.gen, q.items[q.index])
(* activeAdapterRef *)
ActiveRef      == IF active = Nil \/ queues[active].token = 0 THEN NoRef
                  ELSE Ref(CaptureOf(queues[active]))
(* queueVersion.matches *)
AnyVersion     == [sid |-> 0, gen |-> 0]
Guards(v)      == active # Nil /\ Version(queues[active]) = v

(* queueCapture.matches.  The slip compares the queue and not the attempt. *)
MatchesQueue(c) == active # Nil /\ queues[active].sid = c.sid
Matches(c)      == active # Nil /\ CaptureOf(queues[active]) = c

(* buildQueue and buildAdhocQueue; a list leaves out the known bad items.  *)
(* A shuffled list is one in another order, so the order is left out.      *)
IsList(kind)    == kind \in {"list", "first"}
ListItems(skip) == SelectSeq([i \in 1..Items |-> i], LAMBDA i : i \notin skip)
NewSid          == 1 + Len(queues)
Built(kind, skip) ==
    [sid |-> NewSid, kind |-> kind, index |-> 1, gen |-> 0, token |-> 0,
     items |-> IF IsList(kind) THEN ListItems(skip) ELSE <<1>>,
     fails |-> 0, resolving |-> FALSE]

(* canAdvanceNext, advanceNext and advancePrevious.                        *)
CanAdvance(q) == IsList(q.kind) \/ q.index < Len(q.items)
Second(q)     == IF q.kind = "first" /\ Len(q.items) > 1 THEN 2 ELSE 1
Advanced(q)   == [q EXCEPT !.index = IF @ < Len(q.items) THEN @ + 1 ELSE Second(q)]
SteppedBack(q) == [q EXCEPT !.index = IF @ <= Second(q) THEN Len(q.items) ELSE @ - 1]

Update(q)     == queues' = [queues EXCEPT ![active] = q]
(* clearActiveLocked *)
ClearActive   == active' = Nil /\ expected' = {}
                 /\ queues' = IF active = Nil THEN queues
                              ELSE [queues EXCEPT ![active].resolving = FALSE]
Keep          == UNCHANGED <<queues, active, expected>>

-----------------------------------------------------------------------------
(* The session manager.  Who loses the bridge to another AdapterRef, or to *)
(* nobody, is told in a goroutine of its own (see SessionOwnership).       *)

Tell(c, reason) == onStops' = IF Streams(c) THEN onStops \cup {<<c, reason>>} ELSE onStops

(* StartSession, StartSessionIfSession, StartSessionIfIdle *)
Accepts(starter) ==
    CASE starter.mode = "any"  -> TRUE
      [] starter.mode = "idle" -> owner = Nobody
      [] starter.mode = "if"   -> Ref(owner) = starter.ref

Starts(c) == owner' = c /\ played' = played \cup {Ref(c)} /\ Tell(owner, "preempted")
             /\ UNCHANGED stopped

(* StopIfSession, StopIfAdapterRef *)
Stops(ref) ==
    /\ stopped' = stopped \cup ({ref} \ {NoRef})
    /\ UNCHANGED played
    /\ IF ref # NoRef /\ Ref(owner) = ref
       THEN owner' = Nobody /\ Tell(owner, "stopped")
       ELSE UNCHANGED <<owner, onStops>>

SessionEnds ==
    /\ owner # Nobody /\ ends < MaxEnds /\ ends' = ends + 1
    /\ owner' = Nobody
    /\ \E reason \in {"eof", "error"} : Tell(owner, reason)
    /\ UNCHANGED <<queues, active, expected, bad, lock, call, buffers, played, stopped, requests, client>>

ForeignStarts ==
    /\ owner # Foreign /\ ends < MaxEnds /\ ends' = ends + 1
    /\ owner' = Foreign /\ Tell(owner, "preempted")
    /\ UNCHANGED <<queues, active, expected, bad, lock, call, buffers, played, stopped, requests, client>>

-----------------------------------------------------------------------------
(* playCurrentWithStarter: one attempt, and the attempts after it.         *)

(* An attempt begins: its thread record says which queue version it is for,*)
(* which starter it uses and what it has to put right if it fails.         *)
Playing(guard, starter, after) ==
    [pc |-> "play", guard |-> guard, starter |-> starter, after |-> after, cap |-> Nobody,
     live |-> FALSE, tries |-> 1]
AttemptSteps == {"play", "resolve", "start", "starting", "started", "unstarted", "refused",
                 "failed", "unmatched", "restore", "clearOwn", "detach"}
Unguarded       == [mode |-> "any", ref |-> NoRef]
IfIdle          == [mode |-> "idle", ref |-> NoRef]
IfSession(ref)  == [mode |-> "if", ref |-> ref]
Nothing         == [kind |-> "none", prev |-> Nil, guard |-> AnyVersion, ref |-> NoRef]
After(kind, prev, guard, ref) == [kind |-> kind, prev |-> prev, guard |-> guard, ref |-> ref]

Fails(t) == To(t, "failed")

Play(t) ==
    /\ At(t, "play")
    /\ IF ~Guards(call[t].guard) THEN Fails(t) /\ UNCHANGED queues
       ELSE LET q == [queues[active] EXCEPT !.token = @ + 1, !.resolving = TRUE]
            IN /\ Update(q)
               /\ Goes(t, [call[t] EXCEPT !.pc = "resolve", !.cap = CaptureOf(q),
                                                     !.live = q.kind = "live"])
    /\ UNCHANGED <<active, expected, bad, lock, bridge, buffers, bounds>>

(* recordStartFailureAndAdvance: the next item is tried unless too many    *)
(* failed in a row.                                                        *)
Failing(q)       == [q EXCEPT !.fails = @ + 1]
GivesUp(q)       == q.fails >= MaxFailures \/ ~CanAdvance(q)
Continue(q)      == [Advanced(q) EXCEPT !.gen = @ + 1, !.resolving = FALSE]

RecordFailure(t) ==
    IF ~Matches(call[t].cap) THEN Fails(t) /\ Keep
    ELSE LET q == Failing(queues[active]) IN
         IF GivesUp(q) THEN ClearActive /\ Fails(t)
         ELSE /\ Update(Continue(q))
              /\ Goes(t, [call[t] EXCEPT !.pc = "play", !.guard = Version(Continue(q)),
                                            !.tries = @ + 1])
              /\ UNCHANGED <<active, expected>>

(* The resolver answers: media, one bad item, or a failure of the resolver *)
(* itself, which ends the queue (failQueueIfCurrent).  The attempt may have*)
(* been superseded meanwhile (captureStillActive).                         *)
ResolveItem(t) ==
    /\ At(t, "resolve") /\ ~call[t].live
    /\ \/ /\ IF Matches(call[t].cap) THEN To(t, "start") ELSE Fails(t)
          /\ Keep /\ UNCHANGED bad
       \/ /\ RecordFailure(t)
          /\ \/ bad' = IF Matches(call[t].cap) THEN bad \cup {call[t].cap.item} ELSE bad
             \/ UNCHANGED bad
       \/ /\ Fails(t) /\ UNCHANGED bad
          /\ IF Matches(call[t].cap) THEN ClearActive ELSE Keep
    /\ UNCHANGED <<lock, bridge, buffers, bounds>>

(* A direct item is not resolved but may be buffered, in front of the      *)
(* attempt or not at all (audio only, or switched off).                    *)
OpenBuffer(t) ==
    /\ At(t, "resolve") /\ call[t].live
    /\ \/ /\ To(t, "start") /\ UNCHANGED queues
          /\ \/ buffers' = buffers \cup {Ref(call[t].cap)}
             \/ UNCHANGED buffers
       \/ /\ Fails(t) /\ UNCHANGED buffers
          /\ queues' = IF Matches(call[t].cap)
                       THEN [queues EXCEPT ![active].resolving = FALSE] ELSE queues
    /\ UNCHANGED <<active, expected, bad, lock, bridge, bounds>>

(* closeHLSSession.  The slip forgets it when the start is refused. *)
KeepsBuffer(t)  == UNCHANGED buffers
ClosesBuffer(t) == buffers' = buffers \ {Ref(call[t].cap)}

(* playbackMu is taken and the capture compared once more; the slip does   *)
(* not.                                                                    *)
AlwaysActive(c) == TRUE
StillActive(c)  == Matches(c)

LockForStart(t) ==
    /\ At(t, "start") /\ lock = Free
    /\ IF StillActive(call[t].cap)
       THEN lock' = t /\ To(t, "starting") /\ UNCHANGED buffers
       ELSE Fails(t) /\ ClosesBuffer(t) /\ UNCHANGED lock
    /\ UNCHANGED <<queues, active, expected, bad, bridge, bounds>>

(* The manager answers: started, refused by the starter's guard, or failed.*)
ManagerAnswers(t) ==
    /\ At(t, "starting") /\ lock' = Free
    /\ \/ /\ Accepts(call[t].starter)
          /\ Starts(call[t].cap) /\ To(t, "started") /\ UNCHANGED buffers
       \/ /\ ~Accepts(call[t].starter)
          /\ To(t, "refused") /\ ClosesBuffer(t) /\ UNCHANGED bridge
       \/ /\ To(t, "unstarted") /\ ClosesBuffer(t) /\ UNCHANGED bridge
    /\ UNCHANGED <<queues, active, expected, bad, bounds>>

StartFailed(t) ==
    /\ At(t, "unstarted")
    /\ RecordFailure(t)
    /\ UNCHANGED <<bad, lock, bridge, buffers, bounds>>

StartRefused(t) ==
    /\ At(t, "refused")
    /\ To(t, "unmatched")
    /\ IF Matches(call[t].cap) THEN ClearActive ELSE Keep
    /\ UNCHANGED <<bad, lock, bridge, buffers, bounds>>

Started(t) ==
    /\ At(t, "started")
    /\ IF Matches(call[t].cap) THEN Update([queues[active] EXCEPT !.resolving = FALSE])
       ELSE UNCHANGED queues
    /\ IF call[t].after.kind = "handoff" THEN To(t, "detach") ELSE Ends(t)
    /\ UNCHANGED <<active, expected, bad, lock, bridge, buffers, bounds>>

(* cancelDetachedQueueResolve *)
Detach(t) ==
    /\ At(t, "detach")
    /\ LET prev == call[t].after.prev IN
       queues' = IF prev # Nil /\ active # prev THEN [queues EXCEPT ![prev].resolving = FALSE]
                 ELSE queues
    /\ Ends(t)
    /\ UNCHANGED <<active, expected, bad, lock, bridge, buffers, bounds>>

(* After a failed or refused replacement the previous queue may come back. *)
(* For a failed start it does while its session still plays, for a failed  *)
(* guarded move while the guarded session does.                            *)
RefOf(q) == IF queues[q].token = 0 THEN NoRef ELSE Ref(CaptureOf(queues[q]))

LooksBack(t) ==
    LET after == call[t].after
        gone  == \/ after.prev = Nil
                 \/ RefOf(after.prev) # NoRef /\ RefOf(after.prev) # Ref(owner)
    IN /\ \/ At(t, "failed") \/ At(t, "unmatched")
       /\ CASE after.kind = "none" -> Ends(t)
            [] after.kind = "start" -> To(t, IF gone THEN "clearOwn" ELSE "restore")
            [] after.kind = "handoff" -> To(t, "restore")
            [] after.kind = "move" ->
                 IF At(t, "failed") /\ Ref(owner) # after.ref THEN Ends(t) ELSE To(t, "restore")
       /\ UNCHANGED <<queues, active, expected, bad, lock, bridge, buffers, bounds>>

(* restorePreviousQueueAfterUnmatchedStart, restoreGuardedReplacementAfterFailure *)
Restore(t) ==
    /\ At(t, "restore") /\ Ends(t)
    /\ IF active = Nil \/ Guards(call[t].after.guard)
       THEN /\ active' = call[t].after.prev
            /\ queues' = IF active = Nil THEN queues
                         ELSE [queues EXCEPT ![active].resolving = FALSE]
            /\ expected' = IF active = Nil THEN expected ELSE {}
       ELSE Keep
    /\ UNCHANGED <<bad, lock, bridge, buffers, bounds>>

(* clearQueueIfGuardMatches *)
ClearOwn(t) ==
    /\ At(t, "clearOwn") /\ Ends(t)
    /\ IF Guards(call[t].after.guard) THEN ClearActive ELSE Keep
    /\ UNCHANGED <<bad, lock, bridge, buffers, bounds>>

Attempt(t) ==
    \/ Play(t) \/ ResolveItem(t) \/ OpenBuffer(t) \/ LockForStart(t) \/ ManagerAnswers(t)
    \/ StartFailed(t) \/ StartRefused(t) \/ Started(t) \/ Detach(t)
    \/ LooksBack(t) \/ Restore(t) \/ ClearOwn(t)

-----------------------------------------------------------------------------
(* The users' requests.                                                    *)

Asks(t, request) ==
    /\ t \in client.users /\ At(t, "none") /\ request \in client.asks
    /\ requests < client.most /\ requests' = requests + 1
    /\ UNCHANGED <<ends, client>>

(* startResolvedStream: a new queue replaces the active one.               *)
SwapIn(t, kind, starter, after) ==
    LET q == Built(kind, bad) IN
    /\ q.items # <<>>
    /\ queues' = Append(IF after = "start" /\ active # Nil
                        THEN [queues EXCEPT ![active].resolving = FALSE] ELSE queues, q)
    /\ active' = NewSid
    /\ Goes(t, Playing(Version(q), starter, After(after, active, Version(q), NoRef)))

StartResolvedStream(t) ==
    /\ Asks(t, "start")
    /\ \E kind \in client.kinds : SwapIn(t, kind, Unguarded, "start")
    /\ UNCHANGED <<expected, bad, lock, bridge, buffers>>

(* StartResolvedStreamIfSession looks at the session first. *)
AskHandoff(t) ==
    /\ Asks(t, "handoff") /\ owner # Nobody
    /\ Goes(t, [pc |-> "handoff", ref |-> Ref(owner)])
    /\ UNCHANGED <<queues, active, expected, bad, lock, bridge, buffers>>

Handoff(t) ==
    /\ At(t, "handoff")
    /\ \E kind \in client.kinds : SwapIn(t, kind, IfSession(call[t].ref), "handoff")
    /\ UNCHANGED <<expected, bad, lock, bridge, buffers, bounds>>

(* ensureOwnsCoreSession, in front of the guarded requests. *)
AskGuarded(t) ==
    /\ \E request \in {"move", "replay", "stop"} :
          /\ Asks(t, request)
          /\ Streams(owner) /\ ActiveRef = Ref(owner)
          /\ Goes(t, [pc |-> request, ref |-> Ref(owner)])
    /\ UNCHANGED <<queues, active, expected, bad, lock, bridge, buffers>>

(* prepareGuardedReplacementStart: the queue moves on and a clone of it is *)
(* kept.                                                                   *)
Moved(q) == [q EXCEPT !.gen = @ + 1, !.fails = 0, !.resolving = FALSE]

MoveLooks(t) ==
    /\ At(t, "move")
    /\ IF Ref(owner) = call[t].ref THEN To(t, "moveOn") ELSE Ends(t)
    /\ UNCHANGED <<queues, active, expected, bad, lock, bridge, buffers, bounds>>

PrepareMove(t) ==
    /\ At(t, "moveOn")
    /\ IF ActiveRef # call[t].ref \/ ~CanAdvance(queues[active])
       THEN Ends(t) /\ UNCHANGED queues
       ELSE LET q == queues[active]
                v == Version(Moved(q))
            IN /\ \E next \in {Advanced(q), SteppedBack(q)} :
                     queues' = Append([queues EXCEPT ![active] = Moved(next)],
                                      [q EXCEPT !.resolving = FALSE])
               /\ Goes(t, Playing(v, IfSession(call[t].ref),
                                  After("move", Len(queues) + 1, v, call[t].ref)))
    /\ UNCHANGED <<active, expected, bad, lock, bridge, buffers, bounds>>

(* ReplayGuarded: stop the own session, then start over.  The OnStop that  *)
(* the stop causes is expected and must not clear the queue.  A replayed   *)
(* link keeps its queue and is content with any version of it.             *)
ReplayBegins(t) ==
    /\ At(t, "replay")
    /\ IF active = Nil THEN Ends(t)
       ELSE Goes(t, [pc |-> "replayLook", ref |-> call[t].ref, kind |-> queues[active].kind,
                     was |-> Version(queues[active])])
    /\ UNCHANGED <<queues, active, expected, bad, lock, bridge, buffers, bounds>>

(* stopPreviousOwnedCoreGuarded; the slip leaves out markExpectedStop...   *)
NotExpecting(c) == expected
Expecting(c)    == expected \cup {c}

ReplayLooks(t) ==
    /\ At(t, "replayLook")
    /\ LET link == call[t].kind = "adhoc" IN
       IF active = Nil
       THEN IF link THEN Goes(t, [pc |-> "rebuild", kind |-> "adhoc", want |-> AnyVersion])
                         /\ UNCHANGED expected
            ELSE Ends(t) /\ UNCHANGED expected
       ELSE IF (~link /\ ~Guards(call[t].was)) \/ ActiveRef # call[t].ref
       THEN Ends(t) /\ UNCHANGED expected
       ELSE /\ expected' = Expecting(CaptureOf(queues[active]))
            /\ Goes(t, [pc |-> "replayStop", ref |-> call[t].ref, kind |-> call[t].kind,
                        was |-> call[t].was, q |-> active, cap |-> CaptureOf(queues[active])])
    /\ UNCHANGED <<queues, active, bad, lock, bridge, buffers, bounds>>

ReplayStops(t) ==
    /\ At(t, "replayStop") /\ lock = Free
    /\ Stops(call[t].ref)
    /\ To(t, IF Ref(owner) = call[t].ref THEN "replayBump" ELSE "replayOver")
    /\ UNCHANGED <<queues, active, expected, bad, lock, buffers, bounds>>

(* clearExpectedStop *)
ReplayOver(t) ==
    /\ At(t, "replayOver") /\ Ends(t)
    /\ expected' = expected \ {call[t].cap}
    /\ UNCHANGED <<queues, active, bad, lock, bridge, buffers, bounds>>

(* cancelAndBumpQueueIfCurrent *)
Bump(q) == [q EXCEPT !.resolving = FALSE, !.gen = @ + 1]

ReplayBumps(t) ==
    /\ At(t, "replayBump")
    /\ LET q == IF active = call[t].q THEN Bump(queues[active]) ELSE queues[call[t].q]
       IN /\ queues' = [queues EXCEPT ![call[t].q] = q]
          /\ Goes(t, [pc |-> "rebuild", kind |-> call[t].kind,
                      want |-> IF call[t].kind = "adhoc" THEN Version(q)
                               ELSE [call[t].was EXCEPT !.gen = @ + 1]])
    /\ UNCHANGED <<active, expected, bad, lock, bridge, buffers, bounds>>

(* resetForReplay. *)
Reset(q)    == [q EXCEPT !.index = 1, !.fails = 0, !.resolving = FALSE]

Rebuild(t) ==
    /\ At(t, "rebuild")
    /\ LET want == call[t].want
           new  == IF call[t].kind = "adhoc" THEN Reset(queues[active])
                   ELSE Built(call[t].kind, {})
       IN IF active = Nil \/ (want # AnyVersion /\ ~Guards(want))
          THEN Ends(t) /\ UNCHANGED <<queues, active>>
          ELSE /\ IF call[t].kind = "adhoc" THEN Update(new) /\ UNCHANGED active
                  ELSE queues' = Append(queues, new) /\ active' = NewSid
               /\ Goes(t, Playing(Version(new), IfIdle, Nothing))
    /\ UNCHANGED <<expected, bad, lock, bridge, buffers, bounds>>

(* StopQueueGuarded: an attempt that still resolves is only forgotten; a   *)
(* session is stopped.  The slip stops without forgetting the queue.       *)
BeginStop(t) ==
    /\ At(t, "stop")
    /\ LET q       == queues[active]
           resolves == q.resolving /\ q.kind # "live"
       IN IF active = Nil THEN Ends(t) /\ Keep
          ELSE /\ IF resolves THEN ClearActive ELSE Keep
               /\ IF RefOf(active) # call[t].ref
                  THEN IF resolves THEN Goes(t, [pc |-> "unstop", q |-> active]) ELSE Ends(t)
                  ELSE IF resolves THEN Ends(t)
                  ELSE Goes(t, [pc |-> IF q.resolving THEN "stopClear" ELSE "stopLook",
                                ref |-> call[t].ref, cap |-> CaptureOf(q), q |-> active,
                                direct |-> q.resolving])
    /\ UNCHANGED <<bad, lock, bridge, buffers, bounds>>

StopLooks(t) ==
    /\ At(t, "stopLook")
    /\ IF Ref(owner) = call[t].ref THEN To(t, "stopClear") ELSE Ends(t)
    /\ UNCHANGED <<queues, active, expected, bad, lock, bridge, buffers, bounds>>

StopClears(t) ==
    /\ At(t, "stopClear") /\ To(t, "stopCore")
    /\ IF Matches(call[t].cap) THEN ClearActive ELSE Keep
    /\ UNCHANGED <<bad, lock, bridge, buffers, bounds>>

StopStops(t) ==
    /\ At(t, "stopCore") /\ lock = Free
    /\ Stops(call[t].ref)
    /\ IF Ref(owner) # call[t].ref /\ ~call[t].direct
       THEN Goes(t, [pc |-> "unstop", q |-> call[t].q]) ELSE Ends(t)
    /\ UNCHANGED <<queues, active, expected, bad, lock, buffers, bounds>>

(* restoreQueueIfIdle *)
Unstop(t) ==
    /\ At(t, "unstop") /\ Ends(t)
    /\ active' = IF active = Nil THEN call[t].q ELSE active
    /\ UNCHANGED <<queues, expected, bad, lock, bridge, buffers, bounds>>

(* StopActiveCast, and the second half of Stop. *)
AskDrop(t) ==
    /\ Asks(t, "drop") /\ lock = Free /\ lock' = t
    /\ Goes(t, [pc |-> "drop", ref |-> ActiveRef])
    /\ ClearActive
    /\ UNCHANGED <<bad, bridge, buffers>>

Drop(t) ==
    /\ At(t, "drop") /\ lock' = Free /\ Ends(t)
    /\ Stops(call[t].ref)
    /\ UNCHANGED <<queues, active, expected, bad, buffers, bounds>>

Request(t) ==
    \/ StartResolvedStream(t) \/ AskHandoff(t) \/ AskGuarded(t) \/ AskDrop(t)

Answer(t) ==
    \/ Handoff(t) \/ MoveLooks(t) \/ PrepareMove(t)
    \/ ReplayBegins(t) \/ ReplayLooks(t) \/ ReplayStops(t) \/ ReplayOver(t) \/ ReplayBumps(t) \/ Rebuild(t)
    \/ BeginStop(t) \/ StopLooks(t) \/ StopClears(t) \/ StopStops(t) \/ Unstop(t)
    \/ Drop(t)

-----------------------------------------------------------------------------
(* OnStop.  A session that ended by itself is followed by the next item.   *)

OnStop(t, c, reason) ==
    /\ At(t, "none") /\ <<c, reason>> \in onStops /\ onStops' = onStops \ {<<c, reason>>}
    /\ buffers' = buffers \ {Ref(c)}
    /\ CASE ~Matches(c) -> Ends(t) /\ Keep
         [] Matches(c) /\ reason \in {"preempted", "stopped"} ->
              /\ Ends(t)
              /\ IF c \in expected THEN expected' = expected \ {c} /\ UNCHANGED <<queues, active>>
                 ELSE ClearActive
         [] Matches(c) /\ reason \in {"eof", "error"} ->
              LET q    == IF reason = "eof" THEN queues[active] ELSE Failing(queues[active])
                  next == IF reason = "eof" THEN [Advanced(q) EXCEPT !.gen = @ + 1, !.fails = 0]
                          ELSE [Advanced(q) EXCEPT !.gen = @ + 1]
              IN IF (reason = "error" /\ GivesUp(q)) \/ ~CanAdvance(q)
                 THEN ClearActive /\ Ends(t)
                 ELSE /\ Update(next) /\ UNCHANGED <<active, expected>>
                      /\ Goes(t, Playing(Version(next), Unguarded, Nothing))
    /\ UNCHANGED <<bad, lock, owner, played, stopped, bounds>>

(* The six hours of a bad item are over. *)
Forgive == bad # {} /\ bad' = {}
           /\ UNCHANGED <<queues, active, expected, lock, call, bridge, buffers, bounds>>

Next ==
    \/ \E t \in Threads : Request(t) \/ Answer(t) \/ Attempt(t)
    \/ \E t \in Threads : \E o \in onStops : OnStop(t, o[1], o[2])
    \/ SessionEnds \/ ForeignStarts \/ Forgive

Spec == Init /\ [][Next]_vars

-----------------------------------------------------------------------------
(* Properties.                                                             *)

Calm    == onStops = {} /\ \A t \in Threads : At(t, "none")
OneUser == \A t \in Threads, u \in Threads : {t, u} \subseteq client.users => t = u

(* With one user who hands over, moves, replays and drops, a session of    *)
(* streams that plays on when everything has settled is the one its active *)
(* queue stands for, so that Next, Replay and Stop reach it and its end is *)
(* followed by the next item: after failures, refused starts and restored  *)
(* queues, casts of others and OnStops that come late.                     *)
LiveIsControlled ==
    OneUser /\ Calm /\ Streams(owner) => ActiveRef = Ref(owner)

(* A replay that stopped its session still has its queue: the OnStop which *)
(* the stop causes may run before the replay goes on, and is expected.     *)
ReplayKeepsQueue ==
    OneUser => \A t \in Threads : At(t, "replayBump") => active = call[t].q

(* No session comes back.  No AdapterRef plays twice, although clones of   *)
(* queues return and replays reset them: an OnStop that comes late, or a   *)
(* guard of an earlier session, never fits a session started later.  And   *)
(* what a user stopped does not start any more, even when its start was    *)
(* under way: playbackMu orders the start and the stop, and captures are   *)
(* compared under it.  (With moves a restored clone may bring it back.)    *)
NothingComesBack ==
    [][owner' # owner =>
         /\ Streams(owner') => Ref(owner') \notin played
         /\ "move" \notin client.asks => Ref(owner') \notin stopped]_vars

(* Every way out of a buffered start closes its HLS session: superseded,   *)
(* refused, failed, or told by OnStop.                                     *)
BuffersClose == Calm => buffers \subseteq {Ref(owner)}

(* Failing over ends: of a list of which nothing plays, a call tries at    *)
(* most MaxFailures items, whoever else moves the queue meanwhile.         *)
FailoverEnds == \A t \in Threads : call[t].pc \in AttemptSteps => call[t].tries <= MaxFailures

(* However an attempt to play an item ends, it is over: its HLS buffer is  *)
(* closed unless the item plays, and a channel of which nothing plays is   *)
(* given up.                                                               *)
AttemptsEnd == BuffersClose /\ FailoverEnds
=============================================================================
