--------------------------- MODULE SessionManager ---------------------------
(***************************************************************************)
(* The single-session orchestrator of internal/core: Manager, its FSM and  *)
(* the exit of the data planes it spawns.                                  *)
(*                                                                         *)
(* Every adapter calls the Manager from goroutines of its own.  m.mu makes *)
(* each stretch between two unlocks atomic, so an action below is one such *)
(* stretch.  The lock is given up in two places: while ffprobe looks at    *)
(* the source (probing), and while an operation that cancelled the running *)
(* plane waits for its Done channel (awaiting).  Whatever the Manager      *)
(* looked at before may have changed when the lock is taken again.         *)
(*                                                                         *)
(* A session is a request (reduced to its AdapterRef) and the generation   *)
(* allocated for it.  A guard is what the ...If... variants of an          *)
(* operation re-check: nothing ("none"), that no session is active         *)
(* ("idle"), the AdapterRef ("ref"), or AdapterRef and generation          *)
(* ("full").                                                               *)
(***************************************************************************)
EXTENDS Naturals

CONSTANTS
    Callers,        \* goroutines that call the Manager
    Refs,           \* AdapterRefs
    Planes,         \* identities of data planes; reused once a plane is gone
    Operations,     \* per caller: which operations it uses
    GuardModes,     \* which guards they use
    CanPause,       \* the AdapterRefs whose requests advertise CanPause
    CanSeek,        \* ... and CanSeek
    MaxGeneration,  \* bound on the generations allocated
    None            \* nil

AllOperations == {"start", "play", "seek", "pause", "stop"}
AllGuardModes == {"none", "idle", "ref", "full"}
Sessions      == [ref : Refs, gen : Nat]
Outcomes      == {"eof", "error", "canceled"}

ASSUME ManagerAssumption ==
    /\ Operations \in [Callers -> SUBSET AllOperations]
    /\ GuardModes \subseteq AllGuardModes
    /\ MaxGeneration \in Nat
    /\ None \notin Planes \cup Sessions \cup AllOperations \cup Outcomes

VARIABLES
    active,      \* m.active: the session that owns the bridge, or None
    plane,       \* m.plane
    cancelFn,    \* m.cancelFn: the plane the stored CancelFunc cancels
    fsm,         \* the state of m.fsm
    generation,  \* m.nextGeneration
    run,         \* per plane: its goroutine
    call,        \* per caller: the operation in progress
    stops,       \* per generation: how often its OnStop was called
    unlinked     \* generations whose subtitle file the Manager removed

managerVars == <<active, plane, cancelFn, fsm, generation>>
vars == <<managerVars, run, call, stops, unlinked>>

Unused == [st |-> "unused", cancelled |-> FALSE, result |-> None]
Ready  == [pc |-> "ready", op |-> None, guard |-> [mode |-> "none", key |-> None],
           req |-> None, prev |-> None, old |-> None]

Init ==
    /\ active = None /\ plane = None /\ cancelFn = None
    /\ fsm = "idle" /\ generation = 0
    /\ run = [p \in Planes |-> Unused]
    /\ call = [c \in Callers |-> Ready]
    /\ stops = [g \in 1..MaxGeneration |-> 0]
    /\ unlinked = {}

-----------------------------------------------------------------------------
(* Guards and the finite state machine.                                    *)

(* Slips of GuardMatches: the nil check the wrong way round, and a full key*)
(* compared by its AdapterRef alone.                                       *)
GuardMatchesNil(g) ==
    \/ g.mode = "none"
    \/ g.mode = "idle" /\ active = None
    \/ g.mode \in {"ref", "full"} /\ g.key # None /\ (active = None \/ active.ref = g.key.ref)

GuardMatchesByRef(g) ==
    \/ g.mode = "none"
    \/ g.mode = "idle" /\ active = None
    \/ g.mode \in {"ref", "full"} /\ active # None /\ active.ref = g.key.ref

GuardMatches(g) ==
    \/ g.mode = "none"
    \/ g.mode = "idle" /\ active = None
    \/ g.mode = "ref"  /\ active # None /\ active.ref = g.key.ref
    \/ g.mode = "full" /\ active # None /\ active = g.key

(* A caller that holds the key of the active session.  One with a stale    *)
(* key is turned away at once and changes nothing.                         *)
Guard(mode) ==
    [mode |-> mode, key |-> IF mode \in {"ref", "full"} THEN active ELSE None]

(* A slip: seeking becomes a state of its own. *)
TransitionToSeeking(event) == IF event = "seek" THEN "seeking" ELSE "playing"

(* fsm after an event; a rejected event leaves the state alone.            *)
Transition(event) ==
    CASE event = "start" -> "playing"
      [] event = "pause" /\ fsm = "playing" -> "paused"
      [] event = "play"  /\ fsm = "paused"  -> "playing"
      [] event \in {"stop", "eof", "error"} -> "idle"
      [] OTHER -> fsm

(* The counter saturates: two stands for "more than once".                 *)
StopCap      == 2
CountStop(s) == IF s = None THEN stops
                ELSE [stops EXCEPT ![s.gen] = IF @ < StopCap THEN @ + 1 ELSE @]
Unlink(s)    == IF s = None THEN unlinked ELSE unlinked \cup {s.gen}

-----------------------------------------------------------------------------
(* What an operation does with the lock held.                              *)

(* Cancel the running plane and, if there is one to wait for, unlock.  A   *)
(* CancelFunc whose plane is gone cancels nothing.                         *)
MustAwait == cancelFn # None /\ plane # None

(* A slip: the CancelFunc is dropped without having been called. *)
AwaitWithoutCancel(c, entry) ==
    /\ MustAwait
    /\ cancelFn' = None
    /\ call' = [call EXCEPT ![c] =
                   [entry EXCEPT !.pc = "awaiting", !.prev = plane, !.old = active]]
    /\ UNCHANGED <<active, plane, fsm, run, stops, unlinked>>

CancelAndAwait(c, entry) ==
    /\ MustAwait
    /\ run' = [run EXCEPT ![cancelFn].cancelled = TRUE]
    /\ cancelFn' = None
    /\ call' = [call EXCEPT ![c] =
                   [entry EXCEPT !.pc = "awaiting", !.prev = plane, !.old = active]]
    /\ UNCHANGED <<active, plane, fsm, stops, unlinked>>

(* The replaced session is told only if another AdapterRef replaces it.    *)
(* The slip tells it also when it is replayed.                             *)
PreemptEverything(old, s) == old # None
GenuinePreempt(old, s) == old # None /\ old.ref # s.ref

Free(p) == run[p].st = "unused" /\ \A c \in Callers : call[c].prev # p

(* The second half of startPlaneLocked and of its callers: drop what the   *)
(* replaced session leaves behind, build the plane, publish it, run it.    *)
StartPlane(c, op, s, old) ==
    \E p \in Planes :
        /\ Free(p)
        /\ run' = [run EXCEPT ![p] = [Unused EXCEPT !.st = "running"]]
        /\ plane' = p /\ cancelFn' = p /\ active' = s
        /\ stops' = CountStop(IF GenuinePreempt(old, s) THEN old ELSE None)
        /\ unlinked' = Unlink(IF old # None /\ old.gen # s.gen THEN old ELSE None)
        /\ fsm' = Transition(op)
        /\ call' = [call EXCEPT ![c] = Ready]

FinishPause(c) ==
    /\ fsm' = Transition("pause")
    /\ call' = [call EXCEPT ![c] = Ready]
    /\ UNCHANGED <<active, plane, run, stops, unlinked>>

FinishStop(c, old) ==
    /\ active' = None
    /\ stops' = CountStop(old)
    /\ unlinked' = Unlink(old)
    /\ fsm' = Transition("stop")
    /\ call' = [call EXCEPT ![c] = Ready]
    /\ UNCHANGED <<plane, run>>

GiveUp(c) ==
    /\ call' = [call EXCEPT ![c] = Ready]
    /\ UNCHANGED <<managerVars, run, stops, unlinked>>

-----------------------------------------------------------------------------
(* The operations.                                                         *)

Idling(c, op, mode) ==
    /\ call[c].pc = "ready"
    /\ op \in Operations[c] /\ mode \in GuardModes
    /\ GuardMatches(Guard(mode))

BeginProbe(c, op, mode, req) ==
    /\ call' = [call EXCEPT ![c] = [Ready EXCEPT !.pc = "probing", !.op = op,
                                        !.guard = Guard(mode), !.req = req]]
    /\ UNCHANGED <<managerVars, run, stops, unlinked>>

(* StartSession, StartSessionIfIdle, StartSessionIfAdapterRef and          *)
(* StartSessionIfSession up to the probe.  The generation comes later.     *)
BeginStart(c) ==
    \E r \in Refs, mode \in AllGuardModes :
        /\ Idling(c, "start", mode)
        /\ BeginProbe(c, "start", mode, [ref |-> r, gen |-> 0])

(* Play, SeekTo and their guarded variants replay the request and the      *)
(* generation of the session they find.                                    *)
BeginReplay(c) ==
    \E op \in {"play", "seek"}, mode \in AllGuardModes \ {"idle"} :
        /\ Idling(c, op, mode)
        /\ active # None
        /\ op = "seek" => active.ref \in CanSeek
        /\ BeginProbe(c, op, mode, active)

(* The request is invalid, or ffprobe or the filter check fails.           *)
ProbeFails(c) ==
    /\ call[c].pc = "probing"
    /\ GiveUp(c)

AllocateGeneration == generation + 1

(* The lock is taken again and the guard evaluated again.  A start gets    *)
(* its generation here, before the running plane is awaited.               *)
Commit(c) ==
    /\ call[c].pc = "probing"
    /\ IF ~GuardMatches(call[c].guard) THEN GiveUp(c)
       ELSE LET entry == call[c]
                fresh == entry.op = "start"
                s     == IF fresh THEN [entry.req EXCEPT !.gen = AllocateGeneration]
                         ELSE entry.req
            IN /\ fresh => generation < MaxGeneration
               /\ generation' = IF fresh THEN s.gen ELSE generation
               /\ \/ CancelAndAwait(c, [entry EXCEPT !.req = s])
                  \/ ~MustAwait /\ StartPlane(c, entry.op, s, active)

Pause(c) ==
    \E mode \in AllGuardModes \ {"idle"} :
        /\ Idling(c, "pause", mode)
        /\ active # None /\ active.ref \in CanPause
        /\ \/ CancelAndAwait(c, [Ready EXCEPT !.op = "pause", !.guard = Guard(mode)])
           \/ ~MustAwait /\ FinishPause(c) /\ cancelFn' = None
        /\ UNCHANGED generation

Stop(c) ==
    \E mode \in AllGuardModes \ {"idle"} :
        /\ Idling(c, "stop", mode)
        /\ \/ CancelAndAwait(c, [Ready EXCEPT !.op = "stop", !.guard = Guard(mode)])
           \/ ~MustAwait /\ FinishStop(c, active) /\ cancelFn' = None
        /\ UNCHANGED generation

(* Done is closed: lock, re-check the guard, finish.                       *)
Wake(c) ==
    /\ call[c].pc = "awaiting"
    /\ run[call[c].prev].st # "running"
    /\ IF ~GuardMatches(call[c].guard) THEN GiveUp(c)
       ELSE /\ UNCHANGED generation
            /\ \/ call[c].op = "pause" /\ FinishPause(c) /\ UNCHANGED cancelFn
               \/ call[c].op = "stop" /\ FinishStop(c, call[c].old) /\ UNCHANGED cancelFn
               \/ /\ call[c].op \in {"start", "play", "seek"}
                  /\ StartPlane(c, call[c].op, call[c].req, call[c].old)

-----------------------------------------------------------------------------
(* The plane's goroutine.                                                  *)

(* Run returns and closes Done; handlePlaneExit has not run yet.  A        *)
(* cancelled Run usually returns context.Canceled, but the cancellation    *)
(* also kills ffmpeg and closes the video channel, and select may serve    *)
(* those first: it then returns nil, or an error while prebuffering.       *)
PlaneReturns(p) ==
    /\ run[p].st = "running"
    /\ \E r \in Outcomes :
          /\ r = "canceled" => run[p].cancelled
          /\ run' = [run EXCEPT ![p] = [@ EXCEPT !.st = "exiting", !.result = r]]
    /\ UNCHANGED <<managerVars, call, stops, unlinked>>

(* The exit of a plane that another one has replaced says nothing of the   *)
(* session.  The slip takes every exit for the current plane's.            *)
NeverReplaced(p) == FALSE
Replaced(p)      == plane # p

HandlePlaneExit(p) ==
    /\ run[p].st = "exiting"
    /\ run' = [run EXCEPT ![p] = Unused]
    /\ IF Replaced(p) THEN UNCHANGED <<active, plane, cancelFn, fsm, stops, unlinked>>
       ELSE /\ plane' = None
            /\ IF run[p].result = "canceled"
               THEN UNCHANGED <<active, cancelFn, fsm, stops, unlinked>>
               ELSE /\ fsm' = Transition(run[p].result)
                    /\ active' = None
                    /\ cancelFn' = IF active = None THEN cancelFn ELSE None
                    /\ stops' = CountStop(active)
                    /\ unlinked' = Unlink(active)
    /\ UNCHANGED <<generation, call>>

-----------------------------------------------------------------------------
Caller(c) == \/ BeginStart(c) \/ BeginReplay(c) \/ ProbeFails(c) \/ Commit(c)
             \/ Pause(c) \/ Stop(c) \/ Wake(c)

PlaneStep(p) == PlaneReturns(p) \/ HandlePlaneExit(p)

Next == (\E c \in Callers : Caller(c)) \/ (\E p \in Planes : PlaneStep(p))

Spec == Init /\ [][Next]_vars

(***************************************************************************)
(* Probing ends by itself (it runs under a ten second timeout), a goroutine*)
(* whose channel is closed is scheduled and gets the lock, and a cancelled *)
(* Run returns: each of its waits selects on the context or has a timeout. *)
(* Nothing makes a plane that was not cancelled come to an end.            *)
(***************************************************************************)
CancelledReturns(p) == run[p].cancelled /\ PlaneReturns(p)

Fairness ==
    /\ \A c \in Callers : WF_vars(ProbeFails(c) \/ Commit(c)) /\ WF_vars(Wake(c))
    /\ \A p \in Planes : WF_vars(CancelledReturns(p)) /\ WF_vars(HandlePlaneExit(p))

FairSpec == Spec /\ Fairness

-----------------------------------------------------------------------------
(* Type invariant.                                                         *)
TypeOK ==
    /\ active \in Sessions \cup {None}
    /\ plane \in Planes \cup {None}
    /\ cancelFn \in Planes \cup {None}
    /\ fsm \in {"idle", "playing", "paused"}
    /\ generation \in 0..MaxGeneration
    /\ run \in [Planes -> [st : {"unused", "running", "exiting"}, cancelled : BOOLEAN,
                           result : Outcomes \cup {None}]]
    /\ call \in [Callers -> [pc : {"ready", "probing", "awaiting"},
                             op : AllOperations \cup {None},
                             guard : [mode : AllGuardModes, key : Sessions \cup {None}],
                             req : Sessions \cup {None},
                             prev : Planes \cup {None},
                             old : Sessions \cup {None}]]
    /\ stops \in [1..MaxGeneration -> 0..StopCap]
    /\ unlinked \subseteq 1..MaxGeneration

-----------------------------------------------------------------------------
(* Properties that hold whatever guards the callers use.                   *)

(* The plane the Manager believes to be running can be stopped: either it  *)
(* was told to, or the stored CancelFunc is its own.                       *)
CurrentPlaneStoppable ==
    plane # None => run[plane].cancelled \/ cancelFn = plane

(* An operation that waits for a plane it cancelled gets its answer: the   *)
(* lock is free while it waits and nothing it waits for waits for it.      *)
CallsReturn == \A c \in Callers : call[c].pc # "ready" ~> call[c].pc = "ready"

-----------------------------------------------------------------------------
(* Properties of the guarded operations: "none" is not in GuardModes.      *)

(* The FSM moves in lockstep with the session: it is idle exactly when no  *)
(* session is active, whatever ended or came in while an operation probed  *)
(* or waited.                                                              *)
IdleIffNoSession == (fsm = "idle") <=> (active = None)

(* With full session keys the Manager keeps the adapters' promise: see     *)
(* SessionOwnership.  The subtitle file is removed exactly when a session  *)
(* has lost the bridge for good.  (Only while a session is not stopped and *)
(* replayed at the same time, see IdleIsSilent.)                           *)
Ownership == INSTANCE SessionOwnership
                 WITH owner <- active, ended <- unlinked, told <- stops

OneOwnerInOrder == Ownership!Spec

(* Nothing streams to the MiSTer behind the Manager's back: a plane nobody *)
(* cancelled is the current one and belongs to a session.  (Only when no   *)
(* two replays of one session run at the same time.)                       *)
NoOrphanPlane ==
    \A p \in Planes :
        run[p].st = "running" /\ ~run[p].cancelled => plane = p /\ active # None

(* When no session is active, whatever still runs was told to stop.        *)
IdleIsSilent ==
    active = None => \A p \in Planes : run[p].st = "running" => run[p].cancelled

(* A start awaits the plane it preempts: two planes never share the Sender.*)
OnePlaneStreams ==
    \A p, q \in Planes : run[p].st = "running" /\ run[q].st = "running" => p = q
=============================================================================
