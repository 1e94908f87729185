------------------------ MODULE SessionManagerProofs ------------------------
(***************************************************************************)
(* Proofs about SessionManager for any number of callers, AdapterRefs,     *)
(* planes and generations: its invariants, and that it implements          *)
(* SessionOwnership.                                                       *)
(***************************************************************************)
EXTENDS SessionManager, TLAPS

(* A generation that was handed out. *)
Allocated(s) == s.gen \in 1..generation

(* What each caller remembers was handed out, except that a start has no   *)
(* generation while it probes.                                             *)
CallOK(e) ==
    /\ e.pc # "ready" => e.op # None
    /\ e.pc = "probing" => /\ e.op \in {"start", "play", "seek"}
                           /\ e.req # None
                           /\ IF e.op = "start" THEN e.req.gen = 0 ELSE Allocated(e.req)
    /\ e.pc = "awaiting" /\ e.op \in {"start", "play", "seek"} =>
           e.req # None /\ Allocated(e.req)
    /\ e.old # None => Allocated(e.old)
    /\ e.guard.key # None => Allocated(e.guard.key)

CallsOK == \A c \in Callers : CallOK(call[c])

(* The inductive strengthening of TypeOK: without it the generations that  *)
(* stops and unlinked are indexed by could lie outside their bound.        *)
TypeInv == TypeOK /\ (active # None => Allocated(active)) /\ CallsOK

LEMMA InitTypeInv == Init => TypeInv
<1> SUFFICES ASSUME Init PROVE TypeInv
  OBVIOUS
<1>1. TypeOK
  BY ManagerAssumption DEF Init, TypeOK, Unused, Ready, AllGuardModes, StopCap
<1>2. CallsOK
  BY ManagerAssumption DEF Init, CallsOK, CallOK, Ready
<1> QED BY <1>1, <1>2 DEF Init, TypeInv

(* Booking the end of a session keeps the books in shape. *)
LEMMA BooksType ==
  ASSUME TypeOK, NEW s \in Sessions \cup {None}, s # None => Allocated(s)
  PROVE  /\ CountStop(s) \in [1..MaxGeneration -> 0..StopCap]
         /\ Unlink(s) \subseteq 1..MaxGeneration
<1> USE ManagerAssumption DEF TypeOK, StopCap, Allocated
<1>1. CountStop(s) \in [1..MaxGeneration -> 0..2]
  BY DEF CountStop
<1>2. s # None => s.gen \in 1..MaxGeneration
  OBVIOUS
<1>3. Unlink(s) \subseteq 1..MaxGeneration
  BY <1>2 DEF Unlink
<1> QED BY <1>1, <1>3

LEMMA TransitionType ==
  ASSUME TypeOK, NEW event
  PROVE  Transition(event) \in {"idle", "playing", "paused"}
BY DEF TypeOK, Transition

(* What an operation may leave in its caller's entry. *)
EntryType == [pc : {"ready", "probing", "awaiting"},
              op : AllOperations \cup {None},
              guard : [mode : AllGuardModes, key : Sessions \cup {None}],
              req : Sessions \cup {None},
              prev : Planes \cup {None},
              old : Sessions \cup {None}]

LEMMA ReadyType == Ready \in EntryType /\ CallOK(Ready)
BY ManagerAssumption DEF Ready, EntryType, AllGuardModes, CallOK

LEMMA GuardType ==
  ASSUME TypeInv, NEW mode \in AllGuardModes
  PROVE  /\ Guard(mode) \in [mode : AllGuardModes, key : Sessions \cup {None}]
         /\ Guard(mode).key # None => Allocated(Guard(mode).key)
BY DEF TypeInv, TypeOK, Guard

(* One caller's entry changes, and no generation is taken back. *)
LEMMA CallStep ==
  ASSUME TypeInv, NEW c \in Callers, NEW e \in EntryType,
         call' = [call EXCEPT ![c] = e],
         generation' \in Nat, generation' >= generation, CallOK(e)'
  PROVE  call' \in [Callers -> EntryType] /\ CallsOK'
<1>1. call \in [Callers -> EntryType] /\ generation \in Nat
  BY ManagerAssumption DEF TypeInv, TypeOK, EntryType
<1>2. call' \in [Callers -> EntryType]
  BY <1>1
<1>3. ASSUME NEW d \in Callers PROVE CallOK(call[d])'
  <2>1. CASE d = c
    BY <1>1, <2>1, call'[d] = e DEF CallOK, Allocated
  <2>2. CASE d # c
    <3>1. call'[d] = call[d] /\ call[d] \in EntryType /\ CallOK(call[d])
      BY <1>1, <2>2 DEF TypeInv, CallsOK
    <3> QED BY <1>1, <3>1 DEF CallOK, Allocated, EntryType, Sessions
  <2> QED BY <2>1, <2>2
<1> QED BY <1>2, <1>3 DEF CallsOK

(* The caller is done. *)
LEMMA ReadyStep ==
  ASSUME TypeInv, NEW c \in Callers, call' = [call EXCEPT ![c] = Ready],
         generation' \in Nat, generation' >= generation
  PROVE  call' \in [Callers -> EntryType] /\ CallsOK'
<1> DEFINE r == Ready
<1>1. r.pc = "ready" /\ r.old = None /\ r.guard.key = None
  BY DEF Ready
<1>2. CallOK(r)'
  BY <1>1 DEF CallOK
<1> QED BY <1>2, ReadyType, CallStep

-----------------------------------------------------------------------------
(* The building blocks of the operations.  Each is taken with a generation *)
(* that does not go back.                                                  *)
GenerationGrows == generation' \in 0..MaxGeneration /\ generation' >= generation

LEMMA GiveUpStep ==
  ASSUME TypeInv, NEW c \in Callers, GiveUp(c)
  PROVE  TypeInv'
<1>1. GenerationGrows /\ generation' = generation
  BY DEF GiveUp, managerVars, GenerationGrows, TypeInv, TypeOK
<1>2. generation' \in Nat /\ generation' >= generation
  BY <1>1, ManagerAssumption DEF GenerationGrows
<1>3. call' = [call EXCEPT ![c] = Ready]
  BY DEF GiveUp
<1>4. call' \in [Callers -> EntryType] /\ CallsOK'
  BY <1>2, <1>3, ReadyStep
<1> QED BY <1>1, <1>4 DEF GiveUp, managerVars, TypeInv, TypeOK, EntryType, Allocated

LEMMA AwaitStep ==
  ASSUME TypeInv, NEW c \in Callers, NEW e \in EntryType, GenerationGrows,
         CancelAndAwait(c, e), e.op # None,
         e.op \in {"start", "play", "seek"} => e.req # None /\ e.req.gen \in 1..generation',
         e.guard.key # None => Allocated(e.guard.key)
  PROVE  TypeInv'
<1>1. PICK f \in EntryType :
         f = [e EXCEPT !.pc = "awaiting", !.prev = plane, !.old = active]
  BY DEF EntryType, TypeInv, TypeOK
<1>2. generation \in Nat /\ generation' \in Nat
  BY ManagerAssumption DEF GenerationGrows, TypeInv, TypeOK
<1>3. CallOK(f)'
  <2>1. /\ f.pc = "awaiting" /\ f.op = e.op /\ f.req = e.req
        /\ f.guard = e.guard /\ f.old = active
    BY <1>1 DEF EntryType
  <2>2. active # None => active.gen \in 1..generation'
    BY <1>2 DEF TypeInv, TypeOK, Allocated, GenerationGrows, Sessions
  <2>3. e.guard.key # None => e.guard.key.gen \in 1..generation'
    BY <1>2 DEF Allocated, GenerationGrows, EntryType, Sessions
  <2> QED BY <2>1, <2>2, <2>3 DEF CallOK, Allocated
<1>4. call' = [call EXCEPT ![c] = f]
  BY <1>1 DEF CancelAndAwait
<1>5. call' \in [Callers -> EntryType] /\ CallsOK'
  BY <1>2, <1>3, <1>4, CallStep DEF GenerationGrows
<1>6. run' \in [Planes -> [st : {"unused", "running", "exiting"}, cancelled : BOOLEAN,
                           result : Outcomes \cup {None}]]
  BY DEF CancelAndAwait, MustAwait, TypeInv, TypeOK
<1> QED BY <1>2, <1>5, <1>6
        DEF CancelAndAwait, GenerationGrows, TypeInv, TypeOK, EntryType, Allocated, Sessions

LEMMA StartPlaneStep ==
  ASSUME TypeInv, NEW c \in Callers, NEW op, NEW s \in Sessions, NEW old \in Sessions \cup {None},
         GenerationGrows, StartPlane(c, op, s, old),
         s.gen \in 1..generation', old # None => Allocated(old)
  PROVE  TypeInv'
<1>1. generation \in Nat /\ generation' \in Nat
  BY ManagerAssumption DEF GenerationGrows, TypeInv, TypeOK
<1>2. call' \in [Callers -> EntryType] /\ CallsOK'
  BY <1>1, ReadyStep DEF StartPlane, GenerationGrows
<1>3. /\ stops' \in [1..MaxGeneration -> 0..StopCap]
      /\ unlinked' \subseteq 1..MaxGeneration
  BY BooksType DEF StartPlane, TypeInv
<1>4. fsm' \in {"idle", "playing", "paused"}
  BY TransitionType DEF StartPlane, TypeInv
<1>5. /\ run' \in [Planes -> [st : {"unused", "running", "exiting"}, cancelled : BOOLEAN,
                              result : Outcomes \cup {None}]]
      /\ plane' \in Planes /\ cancelFn' \in Planes /\ active' = s
  <2>1. PICK p \in Planes :
           /\ run' = [run EXCEPT ![p] = [Unused EXCEPT !.st = "running"]]
           /\ plane' = p /\ cancelFn' = p /\ active' = s
    BY DEF StartPlane
  <2>2. [Unused EXCEPT !.st = "running"] \in
           [st : {"unused", "running", "exiting"}, cancelled : BOOLEAN,
            result : Outcomes \cup {None}]
    BY DEF Unused
  <2> QED BY <2>1, <2>2 DEF TypeInv, TypeOK
<1> QED BY <1>1, <1>2, <1>3, <1>4, <1>5 DEF GenerationGrows, TypeInv, TypeOK, EntryType, Allocated

LEMMA FinishStep ==
  ASSUME TypeInv, NEW c \in Callers, NEW old \in Sessions \cup {None},
         FinishPause(c) \/ FinishStop(c, old),
         cancelFn' \in Planes \cup {None}, UNCHANGED generation,
         old # None => Allocated(old)
  PROVE  TypeInv'
<1>1. generation \in Nat
  BY ManagerAssumption DEF TypeInv, TypeOK
<1>2. call' \in [Callers -> EntryType] /\ CallsOK'
  BY <1>1, ReadyStep DEF FinishPause, FinishStop
<1>3. fsm' \in {"idle", "playing", "paused"}
  BY TransitionType DEF FinishPause, FinishStop, TypeInv
<1>4. /\ stops' \in [1..MaxGeneration -> 0..StopCap]
      /\ unlinked' \subseteq 1..MaxGeneration
  BY BooksType DEF FinishPause, FinishStop, TypeInv, TypeOK
<1> QED BY <1>2, <1>3, <1>4 DEF FinishPause, FinishStop, TypeInv, TypeOK, EntryType, Allocated

-----------------------------------------------------------------------------
(* The exit of a plane touches no caller.                                  *)
LEMMA PlaneStepType ==
  ASSUME TypeInv, NEW p \in Planes, PlaneStep(p)
  PROVE  TypeInv'
<1> DEFINE RunType == [st : {"unused", "running", "exiting"}, cancelled : BOOLEAN,
                       result : Outcomes \cup {None}]
<1>1. CASE PlaneReturns(p)
  <2>1. PICK r \in Outcomes :
           run' = [run EXCEPT ![p] = [@ EXCEPT !.st = "exiting", !.result = r]]
    BY <1>1 DEF PlaneReturns
  <2>2. [run[p] EXCEPT !.st = "exiting", !.result = r] \in RunType
    <3>1. PICK x \in RunType : x = run[p]
      BY DEF TypeInv, TypeOK
    <3>2. [x EXCEPT !.st = "exiting"] \in RunType
      OBVIOUS
    <3> QED BY <3>1, <3>2
  <2>3. run' \in [Planes -> RunType]
    BY <2>1, <2>2 DEF TypeInv, TypeOK
  <2> QED BY <1>1, <2>3
          DEF PlaneReturns, managerVars, TypeInv, TypeOK, CallsOK, CallOK, Allocated
<1>2. CASE HandlePlaneExit(p)
  <2>1. run' \in [Planes -> RunType]
    <3>1. Unused \in RunType
      BY DEF Unused
    <3> QED BY <1>2, <3>1 DEF HandlePlaneExit, Replaced, TypeInv, TypeOK
  <2>2. /\ stops' \in [1..MaxGeneration -> 0..StopCap]
        /\ unlinked' \subseteq 1..MaxGeneration
    BY <1>2, BooksType DEF HandlePlaneExit, Replaced, TypeInv, TypeOK
  <2>3. fsm' \in {"idle", "playing", "paused"}
    BY <1>2, TransitionType DEF HandlePlaneExit, Replaced, TypeInv, TypeOK
  <2>4. active' \in {active, None} /\ plane' \in {plane, None} /\ cancelFn' \in {cancelFn, None}
    BY <1>2 DEF HandlePlaneExit, Replaced
  <2>5. UNCHANGED <<generation, call>>
    BY <1>2 DEF HandlePlaneExit, Replaced
  <2> QED BY <2>1, <2>2, <2>3, <2>4, <2>5 DEF TypeInv, TypeOK, CallsOK, CallOK, Allocated
<1> QED BY <1>1, <1>2 DEF PlaneStep

(* Begin a probe: the entry remembers a request that is either new, or the *)
(* active session.                                                         *)
LEMMA BeginStep ==
  ASSUME TypeInv, NEW c \in Callers, BeginStart(c) \/ BeginReplay(c)
  PROVE  TypeInv'
<1>1. PICK op \in {"start", "play", "seek"}, mode \in AllGuardModes,
           req \in Sessions :
         /\ BeginProbe(c, op, mode, req)
         /\ IF op = "start" THEN req.gen = 0 ELSE active # None /\ req = active
  <2>1. CASE BeginStart(c)
    <3>1. PICK r \in Refs, mode \in AllGuardModes :
             BeginProbe(c, "start", mode, [ref |-> r, gen |-> 0])
      BY <2>1 DEF BeginStart
    <3>2. [ref |-> r, gen |-> 0] \in Sessions /\ [ref |-> r, gen |-> 0].gen = 0
      BY DEF Sessions
    <3> QED BY <3>1, <3>2
  <2>2. CASE BeginReplay(c)
    <3>1. PICK op \in {"play", "seek"}, mode \in AllGuardModes :
             active # None /\ BeginProbe(c, op, mode, active)
      BY <2>2 DEF BeginReplay
    <3>2. active \in Sessions /\ op # "start"
      BY <3>1 DEF TypeInv, TypeOK
    <3> QED BY <3>1, <3>2
  <2> QED BY <2>1, <2>2
<1>2. PICK e \in EntryType :
         e = [Ready EXCEPT !.pc = "probing", !.op = op, !.guard = Guard(mode), !.req = req]
  BY GuardType, ReadyType DEF EntryType, AllOperations
<1>3. /\ e.pc = "probing" /\ e.op = op /\ e.guard = Guard(mode) /\ e.req = req
      /\ e.old = None
  BY <1>2 DEF Ready
<1>4. UNCHANGED <<managerVars, run, stops, unlinked>> /\ call' = [call EXCEPT ![c] = e]
  BY <1>1, <1>2 DEF BeginProbe
<1>5. generation' \in Nat /\ generation' >= generation /\ UNCHANGED generation
  BY <1>4, ManagerAssumption DEF managerVars, TypeInv, TypeOK
<1>6. CallOK(e)'
  BY <1>1, <1>3, <1>5, GuardType, ManagerAssumption DEF CallOK, Allocated, TypeInv, AllOperations
<1>7. call' \in [Callers -> EntryType] /\ CallsOK'
  BY <1>4, <1>5, <1>6, CallStep
<1> QED BY <1>4, <1>7 DEF managerVars, TypeInv, TypeOK, EntryType, Allocated

(* The operations that go on, with the lock held, to cancel or to finish. *)
LEMMA CommitStep ==
  ASSUME TypeInv, NEW c \in Callers, Commit(c)
  PROVE  TypeInv'
<1>1. CASE ~GuardMatches(call[c].guard)
  BY <1>1, GiveUpStep DEF Commit
<1>2. CASE GuardMatches(call[c].guard)
  <2> DEFINE fresh == call[c].op = "start"
  <2>1. PICK entry \in EntryType : entry = call[c] /\ CallOK(entry) /\ entry.pc = "probing"
    BY <1>2 DEF Commit, TypeInv, TypeOK, CallsOK, EntryType
  <2>2. PICK s \in Sessions :
           s = IF fresh THEN [entry.req EXCEPT !.gen = AllocateGeneration] ELSE entry.req
    <3>1. entry.req \in Sessions
      BY <2>1 DEF CallOK, EntryType
    <3>2. AllocateGeneration \in Nat
      BY ManagerAssumption DEF AllocateGeneration, TypeInv, TypeOK
    <3>3. [entry.req EXCEPT !.gen = AllocateGeneration] \in Sessions
      BY <3>1, <3>2 DEF Sessions
    <3> QED BY <3>1, <3>3
  <2>3. /\ fresh => generation < MaxGeneration
        /\ generation' = IF fresh THEN s.gen ELSE generation
        /\ \/ CancelAndAwait(c, [entry EXCEPT !.req = s])
           \/ ~MustAwait /\ StartPlane(c, entry.op, s, active)
    BY <1>2, <2>1, <2>2 DEF Commit
  <2>4. fresh => s.gen = generation + 1
    BY <2>1, <2>2 DEF EntryType, Sessions, AllocateGeneration, CallOK
  <2>5. GenerationGrows /\ s.gen \in 1..generation'
    BY <2>1, <2>2, <2>3, <2>4, ManagerAssumption
       DEF GenerationGrows, TypeInv, TypeOK, CallOK, Allocated
  <2>6. CASE CancelAndAwait(c, [entry EXCEPT !.req = s])
    <3>1. PICK e \in EntryType : e = [entry EXCEPT !.req = s]
      BY <2>1 DEF EntryType
    <3>2. e.op = entry.op /\ e.req = s /\ e.guard = entry.guard
      BY <3>1 DEF EntryType
    <3>3. /\ e.op # None /\ e.req # None
          /\ e.guard.key # None => Allocated(e.guard.key)
      BY <2>1, <3>2, ManagerAssumption DEF CallOK
    <3> QED BY <2>5, <2>6, <3>1, <3>2, <3>3, AwaitStep
  <2>7. CASE ~MustAwait /\ StartPlane(c, entry.op, s, active)
    <3>1. active \in Sessions \cup {None} /\ (active # None => Allocated(active))
      BY DEF TypeInv, TypeOK
    <3>2. PICK a \in Sessions \cup {None} : a = active
      BY <3>1
    <3> QED BY <2>5, <2>7, <3>1, <3>2, StartPlaneStep
  <2> QED BY <2>3, <2>6, <2>7
<1> QED BY <1>1, <1>2

(* Pause and Stop begin the wait with nothing but their guard.             *)
LEMMA PauseStopAwaitStep ==
  ASSUME TypeInv, NEW c \in Callers, NEW op \in {"pause", "stop"}, NEW mode \in AllGuardModes,
         CancelAndAwait(c, [Ready EXCEPT !.op = op, !.guard = Guard(mode)]),
         UNCHANGED generation
  PROVE  TypeInv'
<1>1. PICK e \in EntryType : e = [Ready EXCEPT !.op = op, !.guard = Guard(mode)]
  BY ReadyType, GuardType DEF EntryType, AllOperations
<1>2. e.op = op /\ e.guard = Guard(mode)
  BY <1>1 DEF Ready
<1>3. GenerationGrows
  BY ManagerAssumption DEF GenerationGrows, TypeInv, TypeOK
<1>4. op # None /\ op \notin {"start", "play", "seek"}
  BY ManagerAssumption DEF AllOperations
<1> QED BY <1>1, <1>2, <1>3, <1>4, GuardType, AwaitStep

LEMMA PauseStep ==
  ASSUME TypeInv, NEW c \in Callers, Pause(c)
  PROVE  TypeInv'
<1>1. PICK mode \in AllGuardModes :
         /\ \/ CancelAndAwait(c, [Ready EXCEPT !.op = "pause", !.guard = Guard(mode)])
            \/ ~MustAwait /\ FinishPause(c) /\ cancelFn' = None
         /\ UNCHANGED generation
  BY DEF Pause
<1>2. None \in Sessions \cup {None}
  OBVIOUS
<1> QED BY <1>1, <1>2, PauseStopAwaitStep, FinishStep

LEMMA StopStep ==
  ASSUME TypeInv, NEW c \in Callers, Stop(c)
  PROVE  TypeInv'
<1>1. PICK mode \in AllGuardModes :
         /\ \/ CancelAndAwait(c, [Ready EXCEPT !.op = "stop", !.guard = Guard(mode)])
            \/ ~MustAwait /\ FinishStop(c, active) /\ cancelFn' = None
         /\ UNCHANGED generation
  BY DEF Stop
<1>2. PICK a \in Sessions \cup {None} : a = active /\ (a # None => Allocated(a))
  BY DEF TypeInv, TypeOK
<1> QED BY <1>1, <1>2, PauseStopAwaitStep, FinishStep

LEMMA WakeStep ==
  ASSUME TypeInv, NEW c \in Callers, Wake(c)
  PROVE  TypeInv'
<1>1. CASE ~GuardMatches(call[c].guard)
  BY <1>1, GiveUpStep DEF Wake
<1>2. CASE GuardMatches(call[c].guard)
  <2>1. PICK entry \in EntryType : entry = call[c] /\ CallOK(entry) /\ entry.pc = "awaiting"
    BY <1>2 DEF Wake, TypeInv, TypeOK, CallsOK, EntryType
  <2>2. UNCHANGED generation /\ GenerationGrows
    BY <1>2, ManagerAssumption DEF Wake, GenerationGrows, TypeInv, TypeOK
  <2>3. entry.old \in Sessions \cup {None} /\ (entry.old # None => Allocated(entry.old))
    BY <2>1 DEF EntryType, CallOK
  <2>4. CASE FinishPause(c) /\ UNCHANGED cancelFn
    <3>1. cancelFn' \in Planes \cup {None}
      BY <2>4 DEF TypeInv, TypeOK
    <3> QED BY <2>2, <2>3, <2>4, <3>1, FinishStep
  <2>5. CASE FinishStop(c, entry.old) /\ UNCHANGED cancelFn
    <3>1. cancelFn' \in Planes \cup {None}
      BY <2>5 DEF TypeInv, TypeOK
    <3> QED BY <2>2, <2>3, <2>5, <3>1, FinishStep
  <2>6. CASE /\ entry.op \in {"start", "play", "seek"}
             /\ StartPlane(c, entry.op, entry.req, entry.old)
    <3>1. entry.req \in Sessions /\ entry.req.gen \in 1..generation'
      BY <2>1, <2>2, <2>6 DEF EntryType, CallOK, Allocated
    <3> QED BY <2>2, <2>3, <2>6, <3>1, StartPlaneStep
  <2> QED BY <1>2, <2>1, <2>4, <2>5, <2>6 DEF Wake
<1> QED BY <1>1, <1>2

LEMMA NextTypeInv == TypeInv /\ [Next]_vars => TypeInv'
<1> SUFFICES ASSUME TypeInv, [Next]_vars PROVE TypeInv'
  OBVIOUS
<1>1. ASSUME NEW c \in Callers, Caller(c) PROVE TypeInv'
  <2>1. CASE ProbeFails(c)
    BY <2>1, GiveUpStep DEF ProbeFails
  <2> QED BY <1>1, <2>1, BeginStep, CommitStep, PauseStep, StopStep, WakeStep DEF Caller
<1>2. ASSUME NEW p \in Planes, PlaneStep(p) PROVE TypeInv'
  BY <1>2, PlaneStepType
<1>3. CASE UNCHANGED vars
  BY <1>3 DEF vars, managerVars, TypeInv, TypeOK, CallsOK, CallOK, Allocated
<1> QED BY <1>1, <1>2, <1>3 DEF Next

(* Every variable keeps its type, whatever the callers do and however they *)
(* interleave: in particular only generations that were handed out are     *)
(* ever booked as stopped or cleaned up.                                   *)
THEOREM TypeCorrect == Spec => []TypeOK
<1>1. TypeInv => TypeOK
  BY DEF TypeInv
<1> QED BY <1>1, InitTypeInv, NextTypeInv, PTL DEF Spec

(* The invariant behind it, for the other proofs.                          *)
LEMMA TypeInvariance == Spec => []TypeInv
BY InitTypeInv, NextTypeInv, PTL DEF Spec

-----------------------------------------------------------------------------
(* With TypeInv, CurrentPlaneStoppable is inductive.                       *)
LEMMA StoppableStep ==
  ASSUME TypeInv, CurrentPlaneStoppable, [Next]_vars
  PROVE  CurrentPlaneStoppable'
<1> USE DEF CurrentPlaneStoppable
<1>1. run \in [Planes -> [st : {"unused", "running", "exiting"}, cancelled : BOOLEAN,
                         result : Outcomes \cup {None}]]
      /\ plane \in Planes \cup {None} /\ cancelFn \in Planes \cup {None}
      /\ None \notin Planes
  BY ManagerAssumption DEF TypeInv, TypeOK
<1>2. ASSUME NEW c \in Callers, NEW e, CancelAndAwait(c, e) PROVE CurrentPlaneStoppable'
  BY <1>1, <1>2 DEF CancelAndAwait, MustAwait
<1>3. ASSUME NEW c \in Callers, NEW op, NEW s, NEW old, StartPlane(c, op, s, old)
      PROVE  CurrentPlaneStoppable'
  BY <1>3 DEF StartPlane
<1>4. ASSUME NEW c \in Callers, NEW old, FinishPause(c) \/ FinishStop(c, old),
             \/ ~MustAwait /\ cancelFn' = None
             \/ UNCHANGED cancelFn
      PROVE  CurrentPlaneStoppable'
  BY <1>1, <1>4 DEF FinishPause, FinishStop, MustAwait
<1>5. ASSUME NEW c \in Callers, GiveUp(c) PROVE CurrentPlaneStoppable'
  BY <1>5 DEF GiveUp, managerVars
<1>6. ASSUME NEW c \in Callers, Caller(c) PROVE CurrentPlaneStoppable'
  <2>1. CASE BeginStart(c) \/ BeginReplay(c)
    BY <2>1 DEF BeginStart, BeginReplay, BeginProbe, managerVars
  <2>2. CASE ProbeFails(c)
    BY <2>2, <1>5 DEF ProbeFails
  <2>3. CASE Commit(c)
    <3>1. CASE ~GuardMatches(call[c].guard)
      BY <2>3, <3>1, <1>5 DEF Commit
    <3>2. CASE GuardMatches(call[c].guard)
      <4>1. PICK e, op, s, old : CancelAndAwait(c, e) \/ StartPlane(c, op, s, old)
        BY <2>3, <3>2 DEF Commit
      <4>2. CASE CancelAndAwait(c, e)
        BY <4>2, <1>2
      <4>3. CASE StartPlane(c, op, s, old)
        BY <4>3, <1>3
      <4> QED BY <4>1, <4>2, <4>3
    <3> QED BY <3>1, <3>2
  <2>4. CASE Pause(c)
    <3>1. PICK e : \/ CancelAndAwait(c, e)
                   \/ ~MustAwait /\ FinishPause(c) /\ cancelFn' = None
      BY <2>4 DEF Pause
    <3>2. CASE CancelAndAwait(c, e)
      BY <3>2, <1>2
    <3> QED BY <3>1, <3>2, <1>4
  <2>5. CASE Stop(c)
    <3>1. PICK e, old : \/ CancelAndAwait(c, e)
                        \/ ~MustAwait /\ FinishStop(c, old) /\ cancelFn' = None
      BY <2>5 DEF Stop
    <3>2. CASE CancelAndAwait(c, e)
      BY <3>2, <1>2
    <3> QED BY <3>1, <3>2, <1>4
  <2>6. CASE Wake(c)
    <3>1. CASE ~GuardMatches(call[c].guard)
      BY <2>6, <3>1, <1>5 DEF Wake
    <3>2. CASE GuardMatches(call[c].guard)
      <4>1. PICK op, s, old :
               \/ StartPlane(c, op, s, old)
               \/ (FinishPause(c) \/ FinishStop(c, old)) /\ UNCHANGED cancelFn
        BY <2>6, <3>2 DEF Wake
      <4>2. CASE StartPlane(c, op, s, old)
        BY <4>2, <1>3
      <4> QED BY <4>1, <4>2, <1>4
    <3> QED BY <3>1, <3>2
  <2> QED BY <1>6, <2>1, <2>2, <2>3, <2>4, <2>5, <2>6 DEF Caller
<1>7. ASSUME NEW p \in Planes, PlaneStep(p) PROVE CurrentPlaneStoppable'
  <2>1. CASE PlaneReturns(p)
    <3>1. PICK r \in Outcomes : run' = [run EXCEPT ![p] = [@ EXCEPT !.st = "exiting", !.result = r]]
      BY <2>1 DEF PlaneReturns
    <3>2. \A q \in Planes : run'[q].cancelled = run[q].cancelled
      BY <1>1, <3>1
    <3> QED BY <1>1, <2>1, <3>2 DEF PlaneReturns, managerVars
  <2>2. CASE HandlePlaneExit(p)
    <3>1. CASE plane # p
      BY <1>1, <2>2, <3>1 DEF HandlePlaneExit, Replaced
    <3>2. CASE plane = p
      BY <2>2, <3>2 DEF HandlePlaneExit, Replaced
    <3> QED BY <3>1, <3>2
  <2> QED BY <1>7, <2>1, <2>2 DEF PlaneStep
<1>8. CASE UNCHANGED vars
  BY <1>8 DEF vars, managerVars
<1> QED BY <1>6, <1>7, <1>8 DEF Next

(* Whatever guards the callers use and however their operations interleave,*)
(* the plane the Manager takes for the running one can be stopped.         *)
THEOREM AlwaysStoppable == Spec => []CurrentPlaneStoppable
<1>1. Init => CurrentPlaneStoppable
  BY DEF Init, CurrentPlaneStoppable
<1>2. TypeInv /\ CurrentPlaneStoppable /\ [Next]_vars => CurrentPlaneStoppable'
  BY StoppableStep
<1> QED BY <1>1, <1>2, TypeInvariance, PTL DEF Spec

-----------------------------------------------------------------------------
(* The FSM and the session.  A call in progress carries one of the guards  *)
(* the callers use, and a call that needs a session does not ask for the   *)
(* Manager to be idle.                                                     *)
CallGuarded(e) ==
    e.pc # "ready" => /\ e.guard.mode \in GuardModes
                      /\ e.op # "start" => e.guard.mode # "idle"

CallsGuarded == \A c \in Callers : CallGuarded(call[c])

(* A plane that has returned has an outcome. *)
ExitsHaveOutcome == \A p \in Planes : run[p].st = "exiting" => run[p].result \in Outcomes

LockstepInv == TypeInv /\ CallsGuarded /\ ExitsHaveOutcome /\ IdleIffNoSession

LEMMA TransitionFacts ==
  /\ Transition("start") = "playing"
  /\ Transition("stop") = "idle" /\ Transition("eof") = "idle" /\ Transition("error") = "idle"
  /\ \A event \in {"play", "seek", "pause"} : fsm # "idle" => Transition(event) # "idle"
BY DEF Transition

(* A guard other than "none" and "idle" is met only by a session. *)
LEMMA GuardNeedsSession ==
  ASSUME NEW g, g.mode \in {"ref", "full"}, GuardMatches(g)
  PROVE  active # None
BY DEF GuardMatches

LEMMA GuardedStep ==
  ASSUME TypeInv, CallsGuarded, [Next]_vars
  PROVE  CallsGuarded'
<1> USE DEF CallsGuarded, CallGuarded
<1>1. call \in [Callers -> EntryType]
  BY DEF TypeInv, TypeOK, EntryType
<1>2. ASSUME NEW c \in Callers, NEW e, call' = [call EXCEPT ![c] = e],
             e.pc # "ready" => /\ e.guard.mode \in GuardModes
                               /\ e.op # "start" => e.guard.mode # "idle"
      PROVE  CallsGuarded'
  BY <1>1, <1>2
<1>3. Ready.pc = "ready"
  BY DEF Ready
<1>4. ASSUME NEW c \in Callers, call' = [call EXCEPT ![c] = Ready] PROVE CallsGuarded'
  BY <1>1, <1>3, <1>4
<1>5. ASSUME NEW c \in Callers, NEW e \in EntryType, CancelAndAwait(c, e),
             e.guard.mode \in GuardModes, e.op # "start" => e.guard.mode # "idle"
      PROVE  CallsGuarded'
  <2>1. PICK f : f = [e EXCEPT !.pc = "awaiting", !.prev = plane, !.old = active]
    OBVIOUS
  <2>2. f.guard = e.guard /\ f.op = e.op
    BY <2>1 DEF EntryType
  <2>3. call' = [call EXCEPT ![c] = f]
    BY <1>5, <2>1 DEF CancelAndAwait
  <2> QED BY <1>2, <1>5, <2>2, <2>3
<1>6. ASSUME NEW c \in Callers, Caller(c) PROVE CallsGuarded'
  <2>1. CASE BeginStart(c) \/ BeginReplay(c)
    <3>0. ASSUME NEW op, NEW mode \in GuardModes, NEW req, BeginProbe(c, op, mode, req),
                 op # "start" => mode # "idle"
          PROVE  CallsGuarded'
      <4>1. PICK e : e = [Ready EXCEPT !.pc = "probing", !.op = op, !.guard = Guard(mode), !.req = req]
        OBVIOUS
      <4>2. e.guard = Guard(mode) /\ e.op = op
        BY <4>1 DEF Ready
      <4>3. e.guard.mode = mode
        BY <4>2 DEF Guard
      <4>4. call' = [call EXCEPT ![c] = e]
        BY <3>0, <4>1 DEF BeginProbe
      <4> QED BY <1>2, <3>0, <4>2, <4>3, <4>4
    <3>1. CASE BeginStart(c)
      <4>1. PICK r \in Refs, mode \in AllGuardModes :
               /\ Idling(c, "start", mode)
               /\ BeginProbe(c, "start", mode, [ref |-> r, gen |-> 0])
        BY <3>1 DEF BeginStart
      <4>2. mode \in GuardModes
        BY <4>1 DEF Idling
      <4> QED BY <3>0, <4>1, <4>2
    <3>2. CASE BeginReplay(c)
      <4>1. PICK op \in {"play", "seek"}, mode \in AllGuardModes \ {"idle"} :
               Idling(c, op, mode) /\ BeginProbe(c, op, mode, active)
        BY <3>2 DEF BeginReplay
      <4>2. mode \in GuardModes
        BY <4>1 DEF Idling
      <4>3. PICK req : req = active
        OBVIOUS
      <4>4. BeginProbe(c, op, mode, req)
        BY <4>1, <4>3
      <4> QED BY <3>0, <4>1, <4>2, <4>4
    <3> QED BY <2>1, <3>1, <3>2
  <2>2. CASE ProbeFails(c)
    BY <2>2, <1>4 DEF ProbeFails, GiveUp
  <2>3. CASE Commit(c)
    <3>1. CASE ~GuardMatches(call[c].guard)
      BY <2>3, <3>1, <1>4 DEF Commit, GiveUp
    <3>2. CASE GuardMatches(call[c].guard)
      <4>1. PICK s, op, old :
               \/ CancelAndAwait(c, [call[c] EXCEPT !.req = s]) \/ StartPlane(c, op, s, old)
        BY <2>3, <3>2 DEF Commit
      <4>2. CASE CancelAndAwait(c, [call[c] EXCEPT !.req = s])
        <5>1. PICK f : f = [call[c] EXCEPT !.req = s, !.pc = "awaiting", !.prev = plane, !.old = active]
          OBVIOUS
        <5>2. call[c].pc # "ready" /\ call[c] \in EntryType
          BY <1>1, <2>3 DEF Commit
        <5>3. f.guard = call[c].guard /\ f.op = call[c].op
          BY <5>1, <5>2 DEF EntryType
        <5>4. call' = [call EXCEPT ![c] = f]
          BY <4>2, <5>1 DEF CancelAndAwait
        <5> QED BY <1>2, <5>2, <5>3, <5>4
      <4>3. CASE StartPlane(c, op, s, old)
        BY <4>3, <1>4 DEF StartPlane
      <4> QED BY <4>1, <4>2, <4>3
    <3> QED BY <3>1, <3>2
  <2>4. CASE Pause(c) \/ Stop(c)
    <3>1. PICK op, mode, old :
             /\ op \in {"pause", "stop"} /\ mode \in GuardModes
             /\ mode # "idle" /\ mode \in AllGuardModes
             /\ \/ CancelAndAwait(c, [Ready EXCEPT !.op = op, !.guard = Guard(mode)])
                \/ FinishPause(c) \/ FinishStop(c, old)
      BY <2>4 DEF Pause, Stop, Idling
    <3>2. CASE CancelAndAwait(c, [Ready EXCEPT !.op = op, !.guard = Guard(mode)])
      <4>1. PICK e \in EntryType : e = [Ready EXCEPT !.op = op, !.guard = Guard(mode)]
        BY <3>1, ReadyType, GuardType DEF EntryType, AllOperations
      <4>2. e.guard = Guard(mode)
        BY <4>1 DEF Ready
      <4>3. e.guard.mode = mode
        BY <4>2 DEF Guard
      <4> QED BY <1>5, <3>1, <3>2, <4>1, <4>3
    <3> QED BY <3>1, <3>2, <1>4 DEF FinishPause, FinishStop
  <2>5. CASE Wake(c)
    BY <2>5, <1>4 DEF Wake, GiveUp, FinishPause, FinishStop, StartPlane
  <2> QED BY <1>6, <2>1, <2>2, <2>3, <2>4, <2>5 DEF Caller
<1>7. ASSUME NEW p \in Planes, PlaneStep(p) PROVE CallsGuarded'
  BY <1>7 DEF PlaneStep, PlaneReturns, HandlePlaneExit, Replaced
<1>8. CASE UNCHANGED vars
  BY <1>8 DEF vars
<1> QED BY <1>6, <1>7, <1>8 DEF Next

LEMMA OutcomeStep ==
  ASSUME TypeInv, ExitsHaveOutcome, [Next]_vars
  PROVE  ExitsHaveOutcome'
<1> USE DEF ExitsHaveOutcome
<1>1. run \in [Planes -> [st : {"unused", "running", "exiting"}, cancelled : BOOLEAN,
                          result : Outcomes \cup {None}]]
  BY DEF TypeInv, TypeOK
<1>2. ASSUME NEW c \in Callers, NEW e, CancelAndAwait(c, e) PROVE ExitsHaveOutcome'
  <2>1. run' = [run EXCEPT ![cancelFn].cancelled = TRUE]
    BY <1>2 DEF CancelAndAwait
  <2>2. \A p \in Planes : run'[p].st = run[p].st /\ run'[p].result = run[p].result
    BY <1>1, <2>1
  <2> QED BY <2>2
<1>3. ASSUME NEW c \in Callers, NEW op, NEW s, NEW old, StartPlane(c, op, s, old)
      PROVE  ExitsHaveOutcome'
  <2>1. PICK p \in Planes : run' = [run EXCEPT ![p] = [Unused EXCEPT !.st = "running"]]
    BY <1>3 DEF StartPlane
  <2>2. run'[p].st = "running"
    BY <1>1, <2>1 DEF Unused
  <2> QED BY <1>1, <2>1, <2>2
<1>4. ASSUME NEW c \in Callers, Caller(c) PROVE ExitsHaveOutcome'
  <2>1. CASE BeginStart(c) \/ BeginReplay(c) \/ ProbeFails(c)
    BY <2>1 DEF BeginStart, BeginReplay, BeginProbe, ProbeFails, GiveUp
  <2>2. CASE Commit(c)
    BY <2>2, <1>2, <1>3 DEF Commit, GiveUp
  <2>3. CASE Pause(c) \/ Stop(c)
    BY <2>3, <1>2 DEF Pause, Stop, FinishPause, FinishStop
  <2>4. CASE Wake(c)
    BY <2>4, <1>3 DEF Wake, GiveUp, FinishPause, FinishStop
  <2> QED BY <1>4, <2>1, <2>2, <2>3, <2>4 DEF Caller
<1>5. ASSUME NEW p \in Planes, PlaneStep(p) PROVE ExitsHaveOutcome'
  <2>1. CASE PlaneReturns(p)
    <3>1. PICK r \in Outcomes : run' = [run EXCEPT ![p] = [@ EXCEPT !.st = "exiting", !.result = r]]
      BY <2>1 DEF PlaneReturns
    <3>2. run'[p].result = r
      BY <1>1, <3>1
    <3> QED BY <1>1, <3>1, <3>2
  <2>2. CASE HandlePlaneExit(p)
    <3>1. run' = [run EXCEPT ![p] = Unused]
      BY <2>2 DEF HandlePlaneExit, Replaced
    <3>2. run'[p].st = "unused"
      BY <1>1, <3>1 DEF Unused
    <3> QED BY <1>1, <3>1, <3>2
  <2> QED BY <1>5, <2>1, <2>2 DEF PlaneStep
<1>6. CASE UNCHANGED vars
  BY <1>6 DEF vars
<1> QED BY <1>4, <1>5, <1>6 DEF Next

(* With guards everywhere, a call that comes back to the lock for anything *)
(* but a start finds a session if its guard still matches.                 *)
LEMMA ReplayFindsSession ==
  ASSUME "none" \notin GuardModes, TypeInv, CallsGuarded, NEW c \in Callers,
         call[c].pc # "ready", call[c].op # "start", GuardMatches(call[c].guard)
  PROVE  active # None
<1>1. call[c].guard.mode \in AllGuardModes
  BY DEF TypeInv, TypeOK
<1>2. call[c].guard.mode \in {"ref", "full"}
  BY <1>1 DEF CallsGuarded, CallGuarded, AllGuardModes
<1> QED BY <1>2, GuardNeedsSession

LEMMA LockstepStep ==
  ASSUME "none" \notin GuardModes, LockstepInv, [Next]_vars
  PROVE  IdleIffNoSession'
<1> USE DEF IdleIffNoSession, LockstepInv
<1>1. ASSUME UNCHANGED <<active, fsm>> PROVE IdleIffNoSession'
  BY <1>1
<1>2. ASSUME NEW c \in Callers, NEW op \in {"start", "play", "seek"}, NEW s, NEW old,
             StartPlane(c, op, s, old), s # None, op # "start" => active # None
      PROVE  IdleIffNoSession'
  BY <1>2, TransitionFacts DEF StartPlane
<1>3. ASSUME NEW c \in Callers, NEW old, FinishStop(c, old) PROVE IdleIffNoSession'
  BY <1>3, TransitionFacts DEF FinishStop
<1>4. ASSUME NEW c \in Callers, FinishPause(c), active # None PROVE IdleIffNoSession'
  BY <1>4, TransitionFacts DEF FinishPause
<1>5. ASSUME NEW c \in Callers, Caller(c) PROVE IdleIffNoSession'
  <2>1. CASE BeginStart(c) \/ BeginReplay(c) \/ ProbeFails(c)
    BY <2>1, <1>1 DEF BeginStart, BeginReplay, BeginProbe, ProbeFails, GiveUp, managerVars
  <2>2. CASE Commit(c)
    <3>1. CASE ~GuardMatches(call[c].guard)
      BY <2>2, <3>1, <1>1 DEF Commit, GiveUp, managerVars
    <3>2. CASE GuardMatches(call[c].guard)
      <4>1. CASE \E e : CancelAndAwait(c, e)
        BY <4>1, <1>1 DEF CancelAndAwait
      <4>2. CASE StartPlane(c, call[c].op,
                           IF call[c].op = "start" THEN [call[c].req EXCEPT !.gen = AllocateGeneration]
                           ELSE call[c].req, active)
        <5>1. call[c].pc = "probing"
          BY <2>2 DEF Commit
        <5>2. call[c].op \in {"start", "play", "seek"} /\ call[c].req # None
              /\ call[c].req \in Sessions \cup {None}
          BY <5>1 DEF TypeInv, TypeOK, CallsOK, CallOK
        <5>3. generation + 1 \in Nat
          BY ManagerAssumption DEF TypeInv, TypeOK
        <5>4. PICK s : s = IF call[c].op = "start"
                           THEN [call[c].req EXCEPT !.gen = AllocateGeneration] ELSE call[c].req
          OBVIOUS
        <5>5. s \in Sessions
          BY <5>2, <5>3, <5>4 DEF Sessions, AllocateGeneration
        <5>6. s # None
          BY <5>5, ManagerAssumption
        <5>7. call[c].op # "start" => active # None
          BY <3>2, <5>1, ReplayFindsSession
        <5>8. PICK op, old : op \in {"start", "play", "seek"} /\ op = call[c].op /\ old = active
          BY <5>2
        <5>9. StartPlane(c, op, s, old)
          BY <4>2, <5>4, <5>8
        <5> QED BY <1>2, <5>6, <5>7, <5>8, <5>9
      <4> QED BY <2>2, <3>2, <4>1, <4>2 DEF Commit
    <3> QED BY <3>1, <3>2
  <2>3. CASE Pause(c)
    BY <2>3, <1>1, <1>4 DEF Pause, CancelAndAwait
  <2>4. CASE Stop(c)
    <3>1. CASE \E e : CancelAndAwait(c, e)
      BY <3>1, <1>1 DEF CancelAndAwait
    <3>2. CASE FinishStop(c, active)
      BY <3>2, TransitionFacts DEF FinishStop
    <3> QED BY <2>4, <3>1, <3>2 DEF Stop
  <2>5. CASE Wake(c)
    <3>1. CASE ~GuardMatches(call[c].guard)
      BY <2>5, <3>1, <1>1 DEF Wake, GiveUp, managerVars
    <3>2. CASE GuardMatches(call[c].guard)
      <4>1. call[c].pc = "awaiting"
        BY <2>5 DEF Wake
      <4>2. call[c].op # "start" => active # None
        BY <3>2, <4>1, ReplayFindsSession
      <4>3. CASE call[c].op = "pause" /\ FinishPause(c)
        BY <4>2, <4>3, <1>4
      <4>4. CASE FinishStop(c, call[c].old)
        BY <4>4, TransitionFacts DEF FinishStop
      <4>5. CASE call[c].op \in {"start", "play", "seek"} /\ StartPlane(c, call[c].op, call[c].req, call[c].old)
        <5>1. call[c].req # None
          BY <4>1, <4>5 DEF TypeInv, CallsOK, CallOK
        <5>2. PICK op, s, old :
                 op \in {"start", "play", "seek"} /\ op = call[c].op /\ s = call[c].req /\ old = call[c].old
          BY <4>5
        <5>3. StartPlane(c, op, s, old)
          BY <4>5, <5>2
        <5> QED BY <1>2, <4>2, <5>1, <5>2, <5>3
      <4> QED BY <2>5, <3>2, <4>3, <4>4, <4>5 DEF Wake
    <3> QED BY <3>1, <3>2
  <2> QED BY <1>5, <2>1, <2>2, <2>3, <2>4, <2>5 DEF Caller
<1>6. ASSUME NEW p \in Planes, PlaneStep(p) PROVE IdleIffNoSession'
  <2>1. CASE PlaneReturns(p)
    BY <2>1, <1>1 DEF PlaneReturns, managerVars
  <2>2. CASE HandlePlaneExit(p)
    <3>1. run[p].result \in Outcomes
      BY <2>2 DEF HandlePlaneExit, Replaced, ExitsHaveOutcome
    <3>2. CASE plane # p \/ run[p].result = "canceled"
      BY <2>2, <3>2, <1>1 DEF HandlePlaneExit, Replaced
    <3>3. CASE plane = p /\ run[p].result # "canceled"
      <4>1. active' = None /\ fsm' = Transition(run[p].result)
        BY <2>2, <3>3 DEF HandlePlaneExit, Replaced
      <4>2. run[p].result = "eof" \/ run[p].result = "error"
        BY <3>1, <3>3 DEF Outcomes
      <4> QED BY <4>1, <4>2, TransitionFacts
    <3> QED BY <3>2, <3>3
  <2> QED BY <1>6, <2>1, <2>2 DEF PlaneStep
<1>7. CASE UNCHANGED vars
  BY <1>7, <1>1 DEF vars, managerVars
<1> QED BY <1>5, <1>6, <1>7 DEF Next

(* When every caller guards its operations, the FSM is idle exactly when   *)
(* no session is active, for any mix of the three guards.                  *)
THEOREM IdleLockstep ==
  ASSUME "none" \notin GuardModes PROVE Spec => []IdleIffNoSession
<1>1. Init => LockstepInv
  <2>1. Init => TypeInv
    BY InitTypeInv
  <2>2. Init => CallsGuarded /\ ExitsHaveOutcome /\ IdleIffNoSession
    BY DEF Init, CallsGuarded, CallGuarded, Ready, ExitsHaveOutcome, Unused, IdleIffNoSession
  <2> QED BY <2>1, <2>2 DEF LockstepInv
<1>2. LockstepInv /\ [Next]_vars => LockstepInv'
  BY NextTypeInv, GuardedStep, OutcomeStep, LockstepStep DEF LockstepInv
<1>3. LockstepInv => IdleIffNoSession
  BY DEF LockstepInv
<1> QED BY <1>1, <1>2, <1>3, PTL DEF Spec

-----------------------------------------------------------------------------
(* SessionManager, used with full session keys, implements                 *)
(* SessionOwnership, and then leaves no plane behind.                      *)

Replaying == {"play", "seek"}

(* Every guard asks for an idle Manager or carries a full session key, and *)
(* no caller replays a session while another may be stopping it.           *)
GuardedByKey    == GuardModes \subseteq {"idle", "full"}
StopsStandAlone ==
    \A c, d \in Callers : c # d /\ "stop" \in Operations[c] => Operations[d] \cap Replaying = {}

(* The generations that own the bridge or owned it before. *)
Owners == unlinked \cup (IF active = None THEN {} ELSE {active.gen})

(* What a call that left the lock relies on when it takes it again: its    *)
(* key is that of an owner, a replay replays the session of its key, a     *)
(* start that waits is younger than the session it replaces, and as long   *)
(* as that session owns the bridge nobody undoes the cancellation a Stop   *)
(* waits for.                                                              *)
EntryKept(e) ==
    /\ e.guard.key # None => e.guard.key.gen \in Owners
    /\ e.pc # "ready" /\ e.op # "start" => e.guard.mode = "full"
    /\ e.pc # "ready" /\ e.guard.mode = "full" => e.guard.key # None
    /\ e.pc # "ready" /\ e.op \in Replaying => e.req = e.guard.key
    /\ e.pc = "awaiting" => e.guard.mode = "full" /\ e.old = e.guard.key
    /\ e.pc = "awaiting" /\ e.op = "start" => e.guard.key.gen < e.req.gen
    /\ e.pc = "awaiting" /\ e.op = "stop" /\ e.guard.key = active => cancelFn = None

(* A caller does what it is there for. *)
InRole(c, e) == e.pc # "ready" => e.op \in Operations[c]

EntriesKept == \A c \in Callers : EntryKept(call[c]) /\ InRole(c, call[c])

(* Owners follow each other by generation, and only owners are told.       *)
InOrder ==
    /\ active # None => \A h \in unlinked : h < active.gen
    /\ \A g \in 1..MaxGeneration : stops[g] # 0 => g \in unlinked

NothingHeldWhenIdle == active = None => cancelFn = None

OwnerInv == NothingHeldWhenIdle /\ EntriesKept /\ InOrder

-----------------------------------------------------------------------------
(* The abstract steps. *)
Owned == <<active, unlinked, stops>>
AbstractStep == Ownership!Take \/ Ownership!Release \/ UNCHANGED Owned

LEMMA Types ==
  ASSUME TypeInv
  PROVE  /\ active \in Sessions \cup {None} /\ None \notin Sessions
         /\ active # None => active.ref \in Refs /\ active.gen \in 1..generation
         /\ generation \in Nat /\ MaxGeneration \in Nat /\ generation <= MaxGeneration
         /\ unlinked \subseteq 1..MaxGeneration
         /\ stops \in [1..MaxGeneration -> 0..StopCap]
         /\ call \in [Callers -> EntryType] /\ CallsOK
BY ManagerAssumption DEF TypeInv, TypeOK, Sessions, EntryType, Allocated

(* The owner has not been told of anything yet, so it is told once. *)
LEMMA TellOwner ==
  ASSUME TypeInv, InOrder, active # None
  PROVE  /\ CountStop(active) = [stops EXCEPT ![active.gen] = @ + 1]
         /\ \A g \in 1..MaxGeneration : CountStop(active)[g] # 0 => g \in unlinked \cup {active.gen}
<1>1. /\ active.gen \in 1..MaxGeneration /\ stops \in [1..MaxGeneration -> 0..StopCap]
  BY Types
<1>2. active.gen \notin unlinked
  <2>1. \A h \in unlinked : h < active.gen
    BY DEF InOrder
  <2>2. active.gen \in Nat
    BY <1>1, Types
  <2> QED BY <2>1, <2>2
<1>3. stops[active.gen] = 0
  BY <1>1, <1>2 DEF InOrder
<1>4. CountStop(active) = [stops EXCEPT ![active.gen] = stops[active.gen] + 1]
  BY <1>3 DEF CountStop, StopCap
<1>5. \A g \in 1..MaxGeneration : g # active.gen => CountStop(active)[g] = stops[g]
  BY <1>1, <1>4
<1> QED BY <1>4, <1>5 DEF InOrder

(* The owner goes, and nobody follows. *)
LEMMA OwnerReleases ==
  ASSUME TypeInv, InOrder, active # None, active' = None,
         stops' = CountStop(active), unlinked' = Unlink(active)
  PROVE  Ownership!Release /\ InOrder' /\ Owners' = Owners
<1>1. unlinked' = unlinked \cup {active.gen}
  BY DEF Unlink
<1>2. Ownership!Release
  BY <1>1, TellOwner DEF Ownership!Release, Ownership!Previous, Ownership!Tell
<1>3. InOrder'
  BY <1>1, TellOwner DEF InOrder
<1> QED BY <1>1, <1>2, <1>3 DEF Owners

(* A session younger than every owner takes the bridge. *)
LEMMA OwnerFollows ==
  ASSUME TypeInv, InOrder, NEW s \in Sessions, s.gen \in 1..MaxGeneration,
         \A h \in Owners : h < s.gen, active' = s,
         stops' = CountStop(IF GenuinePreempt(active, s) THEN active ELSE None),
         unlinked' = Unlink(IF active # None /\ active.gen # s.gen THEN active ELSE None)
  PROVE  Ownership!Take /\ InOrder' /\ Owners' = Owners \cup {s.gen}
<1>1. s # None /\ s.ref \in Refs /\ s.gen \in Nat /\ s = [ref |-> s.ref, gen |-> s.gen]
  BY Types DEF Sessions
<1>2. unlinked' = Owners
  <2>1. CASE active = None
    BY <2>1 DEF Unlink, Owners
  <2>2. CASE active # None
    <3>1. active.gen \in Owners /\ active.gen \in Nat
      BY <2>2, Types DEF Owners
    <3>2. active.gen # s.gen
      BY <3>1, <1>1
    <3> QED BY <2>2, <3>2 DEF Unlink, Owners
  <2> QED BY <2>1, <2>2
<1>3. unlinked' = unlinked \cup Ownership!Previous /\ Owners = unlinked \cup Ownership!Previous
  BY <1>2 DEF Owners, Ownership!Previous
<1>4. CASE active = None \/ active.ref = s.ref
  <2>1. stops' = stops
    BY <1>4 DEF CountStop, GenuinePreempt
  <2>2. Ownership!Take
    BY <1>1, <1>3, <1>4, <2>1 DEF Ownership!Take
  <2>3. InOrder'
    BY <1>1, <1>2, <2>1 DEF InOrder, Owners
  <2> QED BY <1>1, <1>2, <2>2, <2>3 DEF Owners
<1>5. CASE active # None /\ active.ref # s.ref
  <2>1. stops' = CountStop(active)
    BY <1>5 DEF GenuinePreempt
  <2>2. stops' = [stops EXCEPT ![active.gen] = @ + 1]
    BY <1>5, <2>1, TellOwner
  <2>3. Ownership!Take
    BY <1>1, <1>3, <1>5, <2>2 DEF Ownership!Take, Ownership!Tell
  <2>4. InOrder'
    BY <1>1, <1>2, <1>5, <2>1, TellOwner DEF InOrder, Owners
  <2> QED BY <1>1, <1>2, <2>3, <2>4 DEF Owners
<1> QED BY <1>4, <1>5

-----------------------------------------------------------------------------
(* The entries of the callers. *)

(* No Stop that waits for the owner's plane loses the cancellation. *)
StopsSafe(c) ==
    \A d \in Callers \ {c} :
        call[d].pc = "awaiting" /\ call[d].op = "stop" /\ call[d].guard.key = active' => cancelFn' = None

LEMMA EntriesStep ==
  ASSUME TypeInv, EntriesKept, NEW c \in Callers, NEW e, call' = [call EXCEPT ![c] = e],
         EntryKept(e)', InRole(c, e), Owners \subseteq Owners', StopsSafe(c)
  PROVE  EntriesKept'
<1> SUFFICES ASSUME NEW d \in Callers PROVE EntryKept(call[d])' /\ InRole(d, call[d])'
  BY DEF EntriesKept
<1>1. call \in [Callers -> EntryType]
  BY Types
<1>2. CASE d = c
  <2>1. call'[d] = e
    BY <1>1, <1>2
  <2> QED BY <1>2, <2>1 DEF EntryKept, InRole
<1>3. CASE d # c
  <2>1. PICK f : f = call[d]
    OBVIOUS
  <2>2. call'[d] = f
    BY <1>1, <1>3, <2>1
  <2>3. EntryKept(f) /\ InRole(d, f)
    BY <2>1 DEF EntriesKept
  <2>4. f.pc = "awaiting" /\ f.op = "stop" /\ f.guard.key = active' => cancelFn' = None
    BY <1>3, <2>1 DEF StopsSafe
  <2>5. EntryKept(f)'
    BY <2>3, <2>4 DEF EntryKept
  <2> QED BY <2>2, <2>3, <2>5 DEF EntryKept, InRole
<1> QED BY <1>2, <1>3

LEMMA ReadyKept == \A c \in Callers : EntryKept(Ready)' /\ InRole(c, Ready)
<1>1. Ready.pc = "ready" /\ Ready.guard.key = None
  BY DEF Ready
<1> QED BY <1>1 DEF EntryKept, InRole

(* A matching guard of a call in progress is the key of the owner, unless  *)
(* the call is a start that asked for an idle Manager and still probes.    *)
LEMMA MatchingKey ==
  ASSUME GuardedByKey, TypeInv, CallsGuarded, OwnerInv, NEW c \in Callers,
         call[c].pc # "ready", GuardMatches(call[c].guard)
  PROVE  \/ call[c].guard.mode = "full" /\ call[c].guard.key = active /\ active # None
         \/ call[c].pc = "probing" /\ call[c].op = "start" /\ active = None
<1>1. call[c].guard.mode \in {"idle", "full"}
  BY DEF CallsGuarded, CallGuarded, GuardedByKey
<1>2. EntryKept(call[c]) /\ call[c].pc \in {"ready", "probing", "awaiting"}
  BY DEF OwnerInv, EntriesKept, TypeInv, TypeOK
<1> QED BY <1>1, <1>2 DEF GuardMatches, EntryKept

-----------------------------------------------------------------------------
(* The building blocks. *)

LEMMA RestKeeps ==
  ASSUME TypeInv, OwnerInv, NEW c \in Callers, NEW e, call' = [call EXCEPT ![c] = e],
         EntryKept(e)', InRole(c, e), UNCHANGED <<active, stops, unlinked>>,
         cancelFn' = cancelFn \/ cancelFn' = None
  PROVE  OwnerInv' /\ AbstractStep
<1>1. Owners' = Owners
  BY DEF Owners
<1>2. StopsSafe(c)
  <2> SUFFICES ASSUME NEW d \in Callers, call[d].pc = "awaiting", call[d].op = "stop",
                      call[d].guard.key = active'
               PROVE  cancelFn' = None
    BY DEF StopsSafe
  <2>1. EntryKept(call[d])
    BY DEF OwnerInv, EntriesKept
  <2> QED BY <2>1 DEF EntryKept
<1>3. EntriesKept'
  BY <1>1, <1>2, EntriesStep DEF OwnerInv
<1>4. InOrder' /\ NothingHeldWhenIdle'
  BY DEF OwnerInv, InOrder, NothingHeldWhenIdle
<1> QED BY <1>3, <1>4 DEF OwnerInv, AbstractStep, Owned

LEMMA FinishKeeps ==
  ASSUME TypeInv, OwnerInv, NEW c \in Callers,
         GiveUp(c) \/ FinishPause(c), cancelFn' = cancelFn \/ cancelFn' = None
  PROVE  OwnerInv' /\ AbstractStep
<1>1. PICK e : e = Ready
  OBVIOUS
<1>2. EntryKept(e)' /\ InRole(c, e)
  BY <1>1, ReadyKept DEF EntryKept, Owners
<1>3. call' = [call EXCEPT ![c] = e] /\ UNCHANGED <<active, stops, unlinked>>
  BY <1>1 DEF GiveUp, FinishPause, managerVars
<1> QED BY <1>2, <1>3, RestKeeps

(* An operation cancels the plane of the owner and waits. *)
LEMMA AwaitKeeps ==
  ASSUME TypeInv, OwnerInv, NEW c \in Callers, NEW e \in EntryType, CancelAndAwait(c, e),
         e.guard.mode = "full", e.guard.key = active, active # None,
         e.op \in Operations[c], e.op \in Replaying => e.req = active,
         e.op = "start" => active.gen < e.req.gen
  PROVE  OwnerInv' /\ AbstractStep
<1>1. PICK f : f = [e EXCEPT !.pc = "awaiting", !.prev = plane, !.old = active]
  OBVIOUS
<1>2. /\ f.pc = "awaiting" /\ f.op = e.op /\ f.guard = e.guard /\ f.req = e.req
      /\ f.old = active
  BY <1>1 DEF EntryType
<1>3. /\ call' = [call EXCEPT ![c] = f] /\ UNCHANGED <<active, stops, unlinked>> /\ cancelFn' = None
  BY <1>1 DEF CancelAndAwait
<1>4. active.gen \in Owners'
  BY <1>3 DEF Owners
<1>5. EntryKept(f)' /\ InRole(c, f)
  BY <1>2, <1>3, <1>4 DEF EntryKept, InRole
<1> QED BY <1>3, <1>5, RestKeeps

LEMMA StopKeeps ==
  ASSUME TypeInv, OwnerInv, NEW c \in Callers, FinishStop(c, active), active # None,
         cancelFn' = None
  PROVE  OwnerInv' /\ AbstractStep
<1>1. PICK e : e = Ready
  OBVIOUS
<1>2. EntryKept(e)' /\ InRole(c, e)
  BY <1>1, ReadyKept DEF EntryKept, Owners
<1>3. call' = [call EXCEPT ![c] = e]
  BY <1>1 DEF FinishStop
<1>4. Ownership!Release /\ InOrder' /\ Owners' = Owners
  BY OwnerReleases DEF FinishStop, OwnerInv
<1>5. StopsSafe(c)
  BY DEF StopsSafe
<1>6. EntriesKept'
  BY <1>2, <1>3, <1>4, <1>5, EntriesStep DEF OwnerInv
<1> QED BY <1>4, <1>6 DEF OwnerInv, NothingHeldWhenIdle, AbstractStep

(* The owner's plane is started again. *)
LEMMA ReplayKeeps ==
  ASSUME StopsStandAlone, TypeInv, OwnerInv, NEW c \in Callers, NEW op \in Replaying,
         op \in Operations[c], active # None, StartPlane(c, op, active, active)
  PROVE  OwnerInv' /\ AbstractStep
<1>1. PICK e : e = Ready
  OBVIOUS
<1>2. EntryKept(e)' /\ InRole(c, e)
  BY <1>1, ReadyKept DEF EntryKept, Owners
<1>3. call' = [call EXCEPT ![c] = e] /\ UNCHANGED <<active, stops, unlinked>>
  BY <1>1 DEF StartPlane, GenuinePreempt, CountStop, Unlink
<1>4. Owners' = Owners
  BY <1>3 DEF Owners
<1>5. StopsSafe(c)
  <2> SUFFICES ASSUME NEW d \in Callers \ {c}, call[d].pc = "awaiting", call[d].op = "stop"
               PROVE  FALSE
    BY DEF StopsSafe
  <2>1. "stop" \in Operations[d]
    BY DEF OwnerInv, EntriesKept, InRole
  <2> QED BY <2>1 DEF StopsStandAlone
<1>6. EntriesKept'
  BY <1>2, <1>3, <1>4, <1>5, EntriesStep DEF OwnerInv
<1>7. InOrder' /\ NothingHeldWhenIdle'
  BY <1>3 DEF OwnerInv, InOrder, NothingHeldWhenIdle
<1> QED BY <1>3, <1>6, <1>7 DEF OwnerInv, AbstractStep, Owned

(* A new session's plane is started. *)
LEMMA FreshKeeps ==
  ASSUME TypeInv, OwnerInv, NEW c \in Callers, NEW op, NEW s \in Sessions,
         StartPlane(c, op, s, active), s.gen \in 1..MaxGeneration, \A h \in Owners : h < s.gen
  PROVE  OwnerInv' /\ AbstractStep
<1>1. PICK e : e = Ready
  OBVIOUS
<1>2. EntryKept(e)' /\ InRole(c, e)
  BY <1>1, ReadyKept DEF EntryKept, Owners
<1>3. call' = [call EXCEPT ![c] = e] /\ active' = s
  BY <1>1 DEF StartPlane
<1>4. Ownership!Take /\ InOrder' /\ Owners' = Owners \cup {s.gen}
  BY OwnerFollows DEF StartPlane, OwnerInv
<1>5. StopsSafe(c)
  <2> SUFFICES ASSUME NEW d \in Callers, call[d].guard.key = s PROVE FALSE
    BY <1>3 DEF StopsSafe
  <2>1. s # None /\ s.gen \in Nat
    BY Types DEF Sessions
  <2>2. s.gen \in Owners
    BY <2>1 DEF OwnerInv, EntriesKept, EntryKept
  <2> QED BY <2>1, <2>2
<1>6. EntriesKept'
  BY <1>2, <1>3, <1>4, <1>5, EntriesStep DEF OwnerInv
<1>7. s # None
  BY Types
<1> QED BY <1>3, <1>4, <1>6, <1>7 DEF OwnerInv, NothingHeldWhenIdle, AbstractStep

-----------------------------------------------------------------------------
(* The operations. *)

LEMMA BeginKeeps ==
  ASSUME GuardedByKey, TypeInv, OwnerInv, NEW c \in Callers, BeginStart(c) \/ BeginReplay(c)
  PROVE  OwnerInv' /\ AbstractStep
<1>1. PICK op, mode, req :
         /\ mode \in GuardModes /\ GuardMatches(Guard(mode)) /\ op \in Operations[c]
         /\ BeginProbe(c, op, mode, req)
         /\ \/ op = "start"
            \/ op \in Replaying /\ mode # "idle" /\ req = active
  <2>1. CASE BeginStart(c)
    BY <2>1 DEF BeginStart, Idling
  <2>2. CASE BeginReplay(c)
    BY <2>2 DEF BeginReplay, Idling, Replaying
  <2> QED BY <2>1, <2>2
<1>2. PICK e : e = [Ready EXCEPT !.pc = "probing", !.op = op, !.guard = Guard(mode), !.req = req]
  OBVIOUS
<1>3. e.pc = "probing" /\ e.op = op /\ e.guard = Guard(mode) /\ e.req = req
  BY <1>2 DEF Ready
<1>4. /\ UNCHANGED <<active, stops, unlinked, cancelFn>> /\ call' = [call EXCEPT ![c] = e]
  BY <1>1, <1>2 DEF BeginProbe, managerVars
<1>5. /\ mode \in {"idle", "full"} /\ e.guard.mode = mode
      /\ e.guard.key = IF mode = "full" THEN active ELSE None
  BY <1>1, <1>3 DEF GuardedByKey, Guard
<1>6. mode = "full" => active # None
  BY <1>1, <1>3, <1>5 DEF GuardMatches
<1>7. EntryKept(e)'
  <2>1. e.guard.key # None => e.guard.key.gen \in Owners'
    BY <1>4, <1>5 DEF Owners
  <2>2. op # "start" => mode = "full" /\ op \in Replaying /\ req = active
    BY <1>1, <1>5 DEF Replaying
  <2>3. op = "start" => op \notin Replaying
    BY DEF Replaying
  <2> QED BY <1>3, <1>4, <1>5, <1>6, <2>1, <2>2, <2>3 DEF EntryKept
<1>8. InRole(c, e)
  BY <1>1, <1>3 DEF InRole
<1> QED BY <1>4, <1>7, <1>8, RestKeeps

(* Every generation that owns or owned the bridge was handed out. *)
LEMMA OwnersAllocated ==
  ASSUME TypeInv, unlinked \subseteq 1..generation
  PROVE  Owners \subseteq 1..generation
BY Types DEF Owners

(* The generations cleaned up after were handed out. *)
UnlinkedAllocated == unlinked \subseteq 1..generation

LEMMA CommitKeeps ==
  ASSUME GuardedByKey, StopsStandAlone, TypeInv, CallsGuarded, UnlinkedAllocated, OwnerInv,
         NEW c \in Callers, Commit(c)
  PROVE  OwnerInv' /\ AbstractStep
<1>1. CASE ~GuardMatches(call[c].guard)
  <2>1. GiveUp(c) /\ cancelFn' = cancelFn
    BY <1>1 DEF Commit, GiveUp, managerVars
  <2> QED BY <2>1, FinishKeeps
<1>2. CASE GuardMatches(call[c].guard)
  <2> DEFINE fresh == call[c].op = "start"
  <2>1. PICK entry \in EntryType :
           /\ entry = call[c] /\ CallOK(entry) /\ entry.pc = "probing"
           /\ EntryKept(entry) /\ InRole(c, entry)
    BY <1>2, Types DEF Commit, CallsOK, OwnerInv, EntriesKept
  <2>2. /\ entry.req \in Sessions /\ generation + 1 \in Nat
        /\ entry.op \in {"start", "play", "seek"} /\ entry.op \in Operations[c]
        /\ fresh => entry.req.gen = 0
    BY <2>1, Types DEF CallOK, EntryType, InRole
  <2>3. PICK s \in Sessions :
           s = IF fresh THEN [entry.req EXCEPT !.gen = generation + 1] ELSE entry.req
    BY <2>2 DEF Sessions
  <2>4. /\ fresh => generation < MaxGeneration
        /\ \/ CancelAndAwait(c, [entry EXCEPT !.req = s])
           \/ ~MustAwait /\ StartPlane(c, entry.op, s, active)
    BY <1>2, <2>1, <2>3 DEF Commit, AllocateGeneration
  <2>5. fresh => s.gen = generation + 1
    BY <2>2, <2>3 DEF Sessions
  <2>6. fresh => s.gen \in 1..MaxGeneration /\ \A h \in Owners : h < s.gen
    <3>1. Owners \subseteq 1..generation
      BY OwnersAllocated DEF UnlinkedAllocated
    <3> QED BY <2>4, <2>5, <3>1, Types
  <2>7. \/ entry.guard.mode = "full" /\ entry.guard.key = active /\ active # None
        \/ fresh /\ active = None
    BY <1>2, <2>1, MatchingKey
  <2>8. ~fresh => entry.op \in Replaying /\ s = active /\ active # None
    BY <2>1, <2>2, <2>3, <2>7 DEF EntryKept, Replaying
  <2>9. CASE CancelAndAwait(c, [entry EXCEPT !.req = s])
    <3>1. PICK e \in EntryType : e = [entry EXCEPT !.req = s]
      BY <2>1 DEF EntryType
    <3>2. e.op = entry.op /\ e.req = s /\ e.guard = entry.guard
      BY <3>1 DEF EntryType
    <3>3. active # None
      BY <2>9 DEF CancelAndAwait, MustAwait, OwnerInv, NothingHeldWhenIdle
    <3>4. entry.guard.mode = "full" /\ entry.guard.key = active
      BY <2>7, <3>3
    <3>5. e.op = "start" => active.gen < e.req.gen
      BY <2>1, <2>6, <3>2, <3>3 DEF Owners
    <3>6. e.op \in Replaying => e.req = active
      BY <2>1, <2>8, <3>2 DEF Replaying
    <3> QED BY <2>2, <2>9, <3>1, <3>2, <3>3, <3>4, <3>5, <3>6, AwaitKeeps
  <2>10. CASE StartPlane(c, entry.op, s, active)
    <3>1. CASE fresh
      BY <2>6, <2>10, <3>1, FreshKeeps
    <3>2. CASE ~fresh
      BY <2>2, <2>8, <2>10, <3>2, ReplayKeeps
    <3> QED BY <3>1, <3>2
  <2> QED BY <2>4, <2>9, <2>10
<1> QED BY <1>1, <1>2

LEMMA PauseStopKeeps ==
  ASSUME GuardedByKey, TypeInv, OwnerInv, NEW c \in Callers, Pause(c) \/ Stop(c)
  PROVE  OwnerInv' /\ AbstractStep
<1>1. PICK op \in {"pause", "stop"}, mode \in AllGuardModes :
         /\ op \in Operations[c] /\ mode \in GuardModes /\ mode # "idle"
         /\ GuardMatches(Guard(mode))
         /\ \/ CancelAndAwait(c, [Ready EXCEPT !.op = op, !.guard = Guard(mode)])
            \/ FinishPause(c) /\ cancelFn' = None
            \/ FinishStop(c, active) /\ cancelFn' = None
  BY DEF Pause, Stop, Idling
<1>2. mode = "full" /\ active # None
  BY <1>1, GuardNeedsSession DEF GuardedByKey, Guard
<1>3. CASE CancelAndAwait(c, [Ready EXCEPT !.op = op, !.guard = Guard(mode)])
  <2>1. PICK e \in EntryType : e = [Ready EXCEPT !.op = op, !.guard = Guard(mode)]
    BY ReadyType, GuardType DEF EntryType, AllOperations
  <2>2. e.op = op /\ e.guard = Guard(mode)
    BY <2>1 DEF Ready
  <2>3. e.guard.mode = "full" /\ e.guard.key = active
    BY <1>2, <2>2 DEF Guard
  <2>4. e.op \notin Replaying /\ e.op # "start"
    BY <2>2 DEF Replaying
  <2> QED BY <1>1, <1>2, <1>3, <2>1, <2>2, <2>3, <2>4, AwaitKeeps
<1>4. CASE FinishPause(c) /\ cancelFn' = None
  BY <1>4, FinishKeeps
<1>5. CASE FinishStop(c, active) /\ cancelFn' = None
  BY <1>2, <1>5, StopKeeps
<1> QED BY <1>1, <1>3, <1>4, <1>5

LEMMA WakeKeeps ==
  ASSUME GuardedByKey, StopsStandAlone, TypeInv, CallsGuarded, OwnerInv,
         NEW c \in Callers, Wake(c)
  PROVE  OwnerInv' /\ AbstractStep
<1>1. CASE ~GuardMatches(call[c].guard)
  <2>1. GiveUp(c) /\ cancelFn' = cancelFn
    BY <1>1 DEF Wake, GiveUp, managerVars
  <2> QED BY <2>1, FinishKeeps
<1>2. CASE GuardMatches(call[c].guard)
  <2>1. PICK entry \in EntryType :
           /\ entry = call[c] /\ CallOK(entry) /\ entry.pc = "awaiting"
           /\ EntryKept(entry) /\ InRole(c, entry)
    BY <1>2, Types DEF Wake, CallsOK, OwnerInv, EntriesKept
  <2>2. entry.guard.key = active /\ active # None /\ entry.old = active /\ entry.op \in Operations[c]
    BY <1>2, <2>1, MatchingKey DEF EntryKept, InRole
  <2>3. CASE FinishPause(c) /\ cancelFn' = cancelFn
    BY <2>3, FinishKeeps
  <2>4. CASE entry.op = "stop" /\ FinishStop(c, entry.old) /\ cancelFn' = cancelFn
    <3>1. cancelFn' = None
      BY <2>1, <2>2, <2>4 DEF EntryKept
    <3> QED BY <2>2, <2>4, <3>1, StopKeeps
  <2>5. CASE /\ entry.op \in {"start", "play", "seek"}
             /\ StartPlane(c, entry.op, entry.req, entry.old)
    <3>1. entry.req \in Sessions /\ entry.req.gen \in 1..MaxGeneration
      BY <2>1, <2>5, Types DEF EntryType, CallOK, Allocated
    <3>2. CASE entry.op = "start"
      <4>1. active.gen < entry.req.gen /\ active.gen \in Nat /\ entry.req.gen \in Nat
        BY <2>1, <2>2, <3>1, <3>2, Types DEF EntryKept
      <4>2. \A h \in unlinked : h < active.gen /\ h \in Nat
        BY <2>2, Types DEF OwnerInv, InOrder
      <4>3. \A h \in Owners : h < entry.req.gen
        BY <2>2, <4>1, <4>2 DEF Owners
      <4> QED BY <2>2, <2>5, <3>1, <4>3, FreshKeeps
    <3>3. CASE entry.op # "start"
      <4>1. entry.op \in Replaying /\ entry.req = active
        BY <2>1, <2>2, <2>5, <3>3 DEF EntryKept, Replaying
      <4> QED BY <2>2, <2>5, <4>1, ReplayKeeps
    <3> QED BY <3>2, <3>3
  <2> QED BY <1>2, <2>1, <2>3, <2>4, <2>5 DEF Wake
<1> QED BY <1>1, <1>2

LEMMA PlaneKeeps ==
  ASSUME TypeInv, OwnerInv, NEW p \in Planes, PlaneStep(p)
  PROVE  OwnerInv' /\ AbstractStep
<1>1. ASSUME UNCHANGED <<active, stops, unlinked, call>>, cancelFn' = cancelFn \/ cancelFn' = None
      PROVE  OwnerInv' /\ AbstractStep
  <2>1. Owners' = Owners
    BY <1>1 DEF Owners
  <2>2. EntriesKept'
    BY <1>1, <2>1 DEF OwnerInv, EntriesKept, EntryKept, InRole
  <2> QED BY <1>1, <2>2
          DEF OwnerInv, InOrder, NothingHeldWhenIdle, AbstractStep, Owned
<1>2. CASE PlaneReturns(p)
  BY <1>1, <1>2 DEF PlaneReturns, managerVars
<1>3. CASE HandlePlaneExit(p)
  <2>1. CASE plane # p \/ run[p].result = "canceled"
    BY <1>1, <1>3, <2>1 DEF HandlePlaneExit, Replaced
  <2>2. CASE plane = p /\ run[p].result # "canceled"
    <3>1. /\ active' = None /\ stops' = CountStop(active) /\ unlinked' = Unlink(active)
          /\ cancelFn' = (IF active = None THEN cancelFn ELSE None) /\ call' = call
      BY <1>3, <2>2 DEF HandlePlaneExit, Replaced
    <3>2. CASE active = None
      BY <1>1, <3>1, <3>2 DEF CountStop, Unlink
    <3>3. CASE active # None
      <4>1. Ownership!Release /\ InOrder' /\ Owners' = Owners
        BY <3>1, <3>3, OwnerReleases DEF OwnerInv
      <4>2. EntriesKept'
        BY <3>1, <3>3, <4>1 DEF OwnerInv, EntriesKept, EntryKept, InRole
      <4> QED BY <3>1, <3>3, <4>1, <4>2 DEF OwnerInv, NothingHeldWhenIdle, AbstractStep
    <3> QED BY <3>2, <3>3
  <2> QED BY <2>1, <2>2
<1> QED BY <1>2, <1>3 DEF PlaneStep

-----------------------------------------------------------------------------
(* The refinement. *)

LEMMA GenerationsGrow ==
  ASSUME TypeInv, [Next]_vars
  PROVE  generation' \in Nat /\ generation' >= generation
<1>1. generation \in Nat
  BY Types
<1>2. ASSUME NEW c \in Callers, Commit(c) PROVE generation' \in Nat /\ generation' >= generation
  <2>1. CASE ~GuardMatches(call[c].guard)
    BY <1>1, <1>2, <2>1 DEF Commit, GiveUp, managerVars
  <2>2. CASE GuardMatches(call[c].guard)
    <3>1. call[c] \in EntryType /\ call[c].pc = "probing" /\ CallOK(call[c])
      BY <1>2, Types DEF Commit, CallsOK
    <3>2. [call[c].req EXCEPT !.gen = AllocateGeneration].gen = generation + 1
      BY <3>1 DEF CallOK, EntryType, Sessions, AllocateGeneration
    <3>3. generation' = generation + 1 \/ generation' = generation
      BY <1>2, <2>2, <3>2 DEF Commit
    <3> QED BY <1>1, <3>3
  <2> QED BY <2>1, <2>2
<1>3. ASSUME generation' = generation PROVE generation' \in Nat /\ generation' >= generation
  BY <1>1, <1>3
<1>4. ASSUME NEW c \in Callers, Caller(c) PROVE Commit(c) \/ generation' = generation
  BY <1>4 DEF Caller, BeginStart, BeginReplay, BeginProbe, ProbeFails, GiveUp, Pause, Stop, Wake, managerVars
<1>5. ASSUME NEW p \in Planes, PlaneStep(p) PROVE generation' = generation
  BY <1>5 DEF PlaneStep, PlaneReturns, HandlePlaneExit, Replaced, managerVars
<1> QED BY <1>2, <1>3, <1>4, <1>5 DEF Next, vars, managerVars

RefinementInv == TypeInv /\ CallsGuarded /\ UnlinkedAllocated /\ OwnerInv

LEMMA RefinementStep ==
  ASSUME GuardedByKey, StopsStandAlone, RefinementInv, [Next]_vars
  PROVE  RefinementInv' /\ AbstractStep
<1> USE DEF RefinementInv
<1>1. OwnerInv' /\ AbstractStep
  <2>1. ASSUME NEW c \in Callers, Caller(c) PROVE OwnerInv' /\ AbstractStep
    <3>1. CASE ProbeFails(c)
      <4>1. GiveUp(c) /\ cancelFn' = cancelFn
        BY <3>1 DEF ProbeFails, GiveUp, managerVars
      <4> QED BY <4>1, FinishKeeps
    <3> QED BY <2>1, <3>1, BeginKeeps, CommitKeeps, PauseStopKeeps, WakeKeeps DEF Caller
  <2>2. CASE UNCHANGED vars
    <3>1. UNCHANGED <<active, stops, unlinked, call, cancelFn>>
      BY <2>2 DEF vars, managerVars
    <3>2. Owners' = Owners
      BY <3>1 DEF Owners
    <3> QED BY <3>1, <3>2 DEF OwnerInv, EntriesKept, EntryKept, InRole, InOrder,
                              NothingHeldWhenIdle, AbstractStep, Owned
  <2> QED BY <2>1, <2>2, PlaneKeeps DEF Next
<1>2. UnlinkedAllocated'
  <2>1. Owners \subseteq 1..generation
    BY OwnersAllocated DEF UnlinkedAllocated
  <2>2. unlinked' \subseteq Owners
    BY <1>1 DEF AbstractStep, Ownership!Take, Ownership!Release, Ownership!Previous, Owned, Owners
  <2>3. generation' \in Nat /\ generation' >= generation /\ generation \in Nat
    BY GenerationsGrow, Types
  <2> QED BY <2>1, <2>2, <2>3 DEF UnlinkedAllocated
<1> QED BY <1>1, <1>2, NextTypeInv, GuardedStep

LEMMA RefinementInit == Init => RefinementInv /\ Ownership!Init
<1> SUFFICES ASSUME Init PROVE RefinementInv /\ Ownership!Init
  OBVIOUS
<1>1. TypeInv
  BY InitTypeInv
<1>2. CallsGuarded
  BY DEF Init, CallsGuarded, CallGuarded, Ready
<1>3. \A c \in Callers : call[c].pc = "ready" /\ call[c].guard.key = None
  BY DEF Init, Ready
<1>4. EntriesKept
  BY <1>3 DEF EntriesKept, EntryKept, InRole
<1>5. OwnerInv /\ UnlinkedAllocated
  BY <1>4 DEF Init, OwnerInv, NothingHeldWhenIdle, InOrder, UnlinkedAllocated
<1>6. Ownership!Init
  BY DEF Init, Ownership!Init
<1> QED BY <1>1, <1>2, <1>5, <1>6 DEF RefinementInv

LEMMA RefinementInvariant ==
  ASSUME GuardedByKey, StopsStandAlone PROVE Spec => []RefinementInv
<1>1. Init => RefinementInv
  BY RefinementInit
<1>2. RefinementInv /\ [Next]_vars => RefinementInv'
  BY RefinementStep
<1> QED BY <1>1, <1>2, PTL DEF Spec

(* The Manager keeps what it promises the adapters.  When every operation  *)
(* carries a full session key or asks for an idle Manager, and no caller   *)
(* replays sessions that another one stops, the bridge passes from session *)
(* to session in the order of their generations, no session gets it back,  *)
(* and each one that loses it for good is told once and at that moment,    *)
(* however many callers probe and wait at the same time.                   *)
THEOREM ManagerKeepsOwnership ==
  ASSUME GuardedByKey, StopsStandAlone PROVE Spec => OneOwnerInOrder
<1>1. Init => Ownership!Init
  BY RefinementInit
<1>2. RefinementInv /\ [Next]_vars => [Ownership!Take \/ Ownership!Release]_Owned
  BY RefinementStep DEF AbstractStep
<1> QED BY <1>1, <1>2, RefinementInvariant, PTL DEF Spec, OneOwnerInOrder, Ownership!Spec, Owned

-----------------------------------------------------------------------------
(* No plane is left behind, when no session is replayed: a second replay   *)
(* of one session finds its CancelFunc gone and starts beside the first.   *)
NoReplays == \A c \in Callers : Operations[c] \cap Replaying = {}

(* The CancelFunc the Manager holds is the current plane's, and that plane *)
(* has been cancelled exactly when the Manager holds none.                 *)
HoldsItsPlane ==
    /\ cancelFn # None => cancelFn = plane
    /\ plane # None => (cancelFn = None <=> run[plane].cancelled)

CanceledWhenTold ==
    \A p \in Planes : run[p].st = "exiting" /\ run[p].result = "canceled" => run[p].cancelled

AllTold == \A p \in Planes : run[p].st = "running" => run[p].cancelled

(* As long as the session of its key owns the bridge, everything a waiting *)
(* call meets when it wakes has been told to stop.                         *)
WaitersFindSilence ==
    \A c \in Callers : call[c].pc = "awaiting" /\ call[c].guard.key = active =>
        cancelFn = None /\ AllTold

OrphanInv == NoOrphanPlane /\ HoldsItsPlane /\ CanceledWhenTold /\ WaitersFindSilence

LEMMA RunShape ==
  ASSUME TypeInv
  PROVE  /\ run \in [Planes -> [st : {"unused", "running", "exiting"}, cancelled : BOOLEAN,
                                result : Outcomes \cup {None}]]
         /\ plane \in Planes \cup {None} /\ cancelFn \in Planes \cup {None} /\ None \notin Planes
BY ManagerAssumption DEF TypeInv, TypeOK

(* When the Manager holds no CancelFunc, everything has been told.         *)
LEMMA NothingHeldAllTold ==
  ASSUME TypeInv, OrphanInv, cancelFn = None
  PROVE  AllTold
BY RunShape DEF OrphanInv, NoOrphanPlane, HoldsItsPlane, AllTold

(* Steps that only book. *)
LEMMA BookingSpares ==
  ASSUME TypeInv, OrphanInv, NEW c \in Callers, NEW e, call' = [call EXCEPT ![c] = e],
         e.pc # "awaiting", UNCHANGED <<plane, cancelFn, run>>,
         active' = active \/ (active' = None /\ AllTold),
         \A d \in Callers \ {c} : call[d].pc = "awaiting" => call[d].guard.key # None
  PROVE  OrphanInv'
<1>1. call \in [Callers -> EntryType]
  BY Types
<1>2. NoOrphanPlane'
  BY DEF OrphanInv, NoOrphanPlane, AllTold
<1>3. HoldsItsPlane' /\ CanceledWhenTold' /\ (AllTold => AllTold')
  BY DEF OrphanInv, HoldsItsPlane, CanceledWhenTold, AllTold
<1>4. ASSUME NEW d \in Callers, call'[d].pc = "awaiting", call'[d].guard.key = active'
      PROVE  cancelFn' = None /\ AllTold'
  <2>1. d # c /\ call'[d] = call[d]
    BY <1>1, <1>4
  <2>2. active' = active
    BY <1>4, <2>1
  <2> QED BY <1>3, <1>4, <2>1, <2>2 DEF OrphanInv, WaitersFindSilence
<1>5. WaitersFindSilence'
  BY <1>4 DEF WaitersFindSilence
<1> QED BY <1>2, <1>3, <1>5 DEF OrphanInv

LEMMA AwaitSpares ==
  ASSUME TypeInv, OrphanInv, NEW c \in Callers, NEW e, CancelAndAwait(c, e)
  PROVE  OrphanInv'
<1>1. /\ cancelFn # None /\ plane # None /\ cancelFn = plane /\ plane \in Planes
      /\ run' = [run EXCEPT ![plane].cancelled = TRUE]
      /\ cancelFn' = None /\ UNCHANGED <<active, plane>>
  BY RunShape DEF CancelAndAwait, MustAwait, OrphanInv, HoldsItsPlane
<1>2. \A p \in Planes : /\ run'[p].st = run[p].st /\ run'[p].result = run[p].result
                        /\ p # plane => run'[p].cancelled = run[p].cancelled
  BY <1>1, RunShape
<1>3. run'[plane].cancelled = TRUE
  BY <1>1, RunShape
<1>4. AllTold'
  BY <1>2, <1>3 DEF AllTold, OrphanInv, NoOrphanPlane
<1>5. NoOrphanPlane' /\ WaitersFindSilence'
  BY <1>1, <1>4 DEF NoOrphanPlane, AllTold, WaitersFindSilence
<1>6. HoldsItsPlane'
  BY <1>1, <1>3 DEF HoldsItsPlane
<1>7. CanceledWhenTold'
  BY <1>2, <1>3 DEF CanceledWhenTold, OrphanInv
<1> QED BY <1>5, <1>6, <1>7 DEF OrphanInv

LEMMA StartSpares ==
  ASSUME TypeInv, OrphanInv, NEW c \in Callers, NEW op, NEW s \in Sessions, NEW old,
         StartPlane(c, op, s, old), AllTold,
         \A d \in Callers \ {c} : call[d].guard.key # s
  PROVE  OrphanInv'
<1>1. PICK p \in Planes :
         /\ run[p].st = "unused"
         /\ run' = [run EXCEPT ![p] = [Unused EXCEPT !.st = "running"]]
         /\ plane' = p /\ cancelFn' = p /\ active' = s
         /\ call' = [call EXCEPT ![c] = Ready]
  BY DEF StartPlane, Free
<1>2. /\ run'[p].st = "running" /\ run'[p].cancelled = FALSE
      /\ \A q \in Planes : q # p => run'[q] = run[q]
  BY <1>1, RunShape DEF Unused
<1>3. s # None
  BY Types
<1>4. NoOrphanPlane'
  BY <1>1, <1>2, <1>3 DEF NoOrphanPlane, AllTold
<1>5. HoldsItsPlane'
  BY <1>1, <1>2, RunShape DEF HoldsItsPlane
<1>6. CanceledWhenTold'
  BY <1>2 DEF CanceledWhenTold, OrphanInv
<1>7. WaitersFindSilence'
  <2> SUFFICES ASSUME NEW d \in Callers, call'[d].pc = "awaiting", call'[d].guard.key = s PROVE FALSE
    BY <1>1 DEF WaitersFindSilence
  <2>1. call \in [Callers -> EntryType]
    BY Types
  <2>2. CASE d = c
    BY <1>1, <2>1, <2>2 DEF Ready
  <2>3. CASE d # c
    BY <1>1, <2>1, <2>3
  <2> QED BY <2>2, <2>3
<1> QED BY <1>4, <1>5, <1>6, <1>7 DEF OrphanInv

(* A key is never that of a session that has not started yet. *)
LEMMA KeyIsOld ==
  ASSUME TypeInv, OwnerInv, NEW s \in Sessions, \A h \in Owners : h < s.gen
  PROVE  \A d \in Callers : call[d].guard.key # s
<1> SUFFICES ASSUME NEW d \in Callers, call[d].guard.key = s PROVE FALSE
  OBVIOUS
<1>1. s # None /\ s.gen \in Nat
  BY Types DEF Sessions
<1>2. s.gen \in Owners
  BY <1>1 DEF OwnerInv, EntriesKept, EntryKept
<1> QED BY <1>1, <1>2

LEMMA WaitersHaveKeys ==
  ASSUME OwnerInv
  PROVE  \A d \in Callers : call[d].pc = "awaiting" => call[d].guard.key # None
BY DEF OwnerInv, EntriesKept, EntryKept

LEMMA FinishSpares ==
  ASSUME RefinementInv, OrphanInv, NEW c \in Callers, NEW old,
         \/ GiveUp(c)
         \/ (FinishPause(c) \/ (FinishStop(c, old) /\ AllTold)) /\ cancelFn' = cancelFn
  PROVE  OrphanInv'
<1>1. PICK e : e = Ready
  OBVIOUS
<1>2. e.pc # "awaiting" /\ call' = [call EXCEPT ![c] = e]
  BY <1>1 DEF Ready, GiveUp, FinishPause, FinishStop
<1>3. /\ UNCHANGED <<plane, cancelFn, run>>
      /\ active' = active \/ (active' = None /\ AllTold)
  BY DEF GiveUp, FinishPause, FinishStop, managerVars
<1> QED BY <1>2, <1>3, WaitersHaveKeys, BookingSpares DEF RefinementInv

LEMMA CallerSpares ==
  ASSUME GuardedByKey, NoReplays, RefinementInv, OrphanInv, NEW c \in Callers, Caller(c)
  PROVE  OrphanInv'
<1> USE DEF RefinementInv
<1>0. ~MustAwait => cancelFn = None
  BY RunShape DEF MustAwait, OrphanInv, HoldsItsPlane
<1>1. CASE BeginStart(c) \/ BeginReplay(c)
  <2>1. PICK op, mode, req : BeginProbe(c, op, mode, req)
    BY <1>1 DEF BeginStart, BeginReplay
  <2>2. PICK e : e = [Ready EXCEPT !.pc = "probing", !.op = op, !.guard = Guard(mode), !.req = req]
    OBVIOUS
  <2>3. e.pc # "awaiting"
    BY <2>2 DEF Ready
  <2>4. call' = [call EXCEPT ![c] = e] /\ UNCHANGED <<plane, cancelFn, run, active>>
    BY <2>1, <2>2 DEF BeginProbe, managerVars
  <2> QED BY <2>3, <2>4, WaitersHaveKeys, BookingSpares
<1>2. CASE ProbeFails(c)
  BY <1>2, FinishSpares DEF ProbeFails
<1>3. CASE Commit(c)
  <2>1. CASE ~GuardMatches(call[c].guard)
    BY <1>3, <2>1, FinishSpares DEF Commit
  <2>2. CASE GuardMatches(call[c].guard)
    <3>1. call[c] \in EntryType /\ CallOK(call[c]) /\ call[c].pc = "probing" /\ InRole(c, call[c])
      BY <1>3, Types DEF Commit, CallsOK, OwnerInv, EntriesKept
    <3>2. call[c].op = "start" /\ call[c].req \in Sessions /\ generation + 1 \in Nat
      BY <3>1, Types DEF CallOK, InRole, NoReplays, Replaying, EntryType
    <3>3. PICK s \in Sessions : s = [call[c].req EXCEPT !.gen = generation + 1]
      BY <3>2 DEF Sessions
    <3>4. s.gen = generation + 1
      BY <3>2, <3>3 DEF Sessions
    <3>5. \/ \E e : CancelAndAwait(c, e)
          \/ ~MustAwait /\ StartPlane(c, "start", s, active)
      BY <1>3, <2>2, <3>2, <3>3 DEF Commit, AllocateGeneration
    <3>6. \A h \in Owners : h < s.gen
      BY <3>4, OwnersAllocated, Types DEF UnlinkedAllocated
    <3>7. CASE ~MustAwait /\ StartPlane(c, "start", s, active)
      <4>1. AllTold
        BY <1>0, <3>7, NothingHeldAllTold
      <4> QED BY <3>6, <3>7, <4>1, KeyIsOld, StartSpares
    <3> QED BY <3>5, <3>7, AwaitSpares
  <2> QED BY <2>1, <2>2
<1>4. CASE Pause(c) \/ Stop(c)
  <2>1. PICK e, old :
           \/ CancelAndAwait(c, e)
           \/ ~MustAwait /\ (FinishPause(c) \/ FinishStop(c, old)) /\ cancelFn' = None
    BY <1>4 DEF Pause, Stop
  <2>2. CASE CancelAndAwait(c, e)
    BY <2>2, AwaitSpares
  <2>3. CASE ~MustAwait /\ (FinishPause(c) \/ FinishStop(c, old)) /\ cancelFn' = None
    <3>1. cancelFn = None /\ AllTold
      BY <1>0, <2>3, NothingHeldAllTold
    <3> QED BY <2>3, <3>1, FinishSpares
  <2> QED BY <2>1, <2>2, <2>3
<1>5. CASE Wake(c)
  <2>1. CASE ~GuardMatches(call[c].guard)
    BY <1>5, <2>1, FinishSpares DEF Wake
  <2>2. CASE GuardMatches(call[c].guard)
    <3>1. /\ call[c] \in EntryType /\ CallOK(call[c]) /\ call[c].pc = "awaiting"
          /\ InRole(c, call[c]) /\ EntryKept(call[c])
      BY <1>5, Types DEF Wake, CallsOK, OwnerInv, EntriesKept
    <3>2. call[c].guard.key = active /\ active # None
      BY <2>2, <3>1, MatchingKey
    <3>3. AllTold
      BY <3>1, <3>2 DEF OrphanInv, WaitersFindSilence
    <3>4. CASE (FinishPause(c) \/ FinishStop(c, call[c].old)) /\ cancelFn' = cancelFn
      <4>1. PICK old : old = call[c].old
        OBVIOUS
      <4> QED BY <3>3, <3>4, <4>1, FinishSpares
    <3>5. CASE /\ call[c].op \in {"start", "play", "seek"}
               /\ StartPlane(c, call[c].op, call[c].req, call[c].old)
      <4>1. call[c].op = "start" /\ call[c].req \in Sessions
        BY <3>1, <3>5 DEF InRole, NoReplays, Replaying, CallOK, EntryType
      <4> DEFINE s == call[c].req
                 old == call[c].old
      <4>2. s \in Sessions /\ s = call[c].req /\ old = call[c].old
        BY <4>1
      <4> HIDE DEF s, old
      <4>3. active.gen < s.gen /\ active.gen \in Nat /\ s.gen \in Nat
        BY <3>1, <3>2, <4>1, <4>2, Types DEF EntryKept, Sessions
      <4>4. \A h \in unlinked : h < active.gen /\ h \in Nat
        BY <3>2, Types DEF OwnerInv, InOrder
      <4>5. \A h \in Owners : h < s.gen
        BY <3>2, <4>3, <4>4 DEF Owners
      <4>6. StartPlane(c, "start", s, old)
        BY <3>5, <4>1, <4>2
      <4> QED BY <3>3, <4>2, <4>5, <4>6, KeyIsOld, StartSpares
    <3> QED BY <1>5, <2>2, <3>4, <3>5 DEF Wake
  <2> QED BY <2>1, <2>2
<1> QED BY <1>1, <1>2, <1>3, <1>4, <1>5 DEF Caller

LEMMA PlaneSpares ==
  ASSUME RefinementInv, OrphanInv, NEW p \in Planes, PlaneStep(p)
  PROVE  OrphanInv'
<1> USE DEF RefinementInv
<1>1. CASE PlaneReturns(p)
  <2>1. PICK r \in Outcomes :
           /\ r = "canceled" => run[p].cancelled
           /\ run' = [run EXCEPT ![p] = [@ EXCEPT !.st = "exiting", !.result = r]]
    BY <1>1 DEF PlaneReturns
  <2>2. /\ run'[p].st = "exiting" /\ run'[p].result = r
        /\ \A q \in Planes : run'[q].cancelled = run[q].cancelled
        /\ \A q \in Planes : q # p => run'[q] = run[q]
    BY <2>1, RunShape
  <2>3. UNCHANGED <<active, plane, cancelFn, call>> /\ run[p].st = "running"
    BY <1>1 DEF PlaneReturns, managerVars
  <2>4. NoOrphanPlane' /\ CanceledWhenTold' /\ (AllTold => AllTold')
    BY <2>1, <2>2, <2>3 DEF OrphanInv, NoOrphanPlane, CanceledWhenTold, AllTold
  <2>5. HoldsItsPlane'
    BY <2>2, <2>3, RunShape DEF OrphanInv, HoldsItsPlane
  <2>6. WaitersFindSilence'
    BY <2>3, <2>4 DEF OrphanInv, WaitersFindSilence
  <2> QED BY <2>4, <2>5, <2>6 DEF OrphanInv
<1>2. CASE HandlePlaneExit(p)
  <2>1. run[p].st = "exiting" /\ run' = [run EXCEPT ![p] = Unused] /\ call' = call
    BY <1>2 DEF HandlePlaneExit, Replaced
  <2>2. run'[p].st = "unused" /\ \A q \in Planes : q # p => run'[q] = run[q]
    BY <2>1, RunShape DEF Unused
  <2>3. CanceledWhenTold' /\ (AllTold => AllTold')
    BY <2>1, <2>2 DEF OrphanInv, CanceledWhenTold, AllTold
  <2>4. CASE plane # p
    <3>1. UNCHANGED <<active, plane, cancelFn>>
      BY <1>2, <2>4 DEF HandlePlaneExit, Replaced
    <3>2. NoOrphanPlane' /\ HoldsItsPlane' /\ WaitersFindSilence'
      BY <2>1, <2>2, <2>3, <2>4, <3>1, RunShape
         DEF OrphanInv, NoOrphanPlane, HoldsItsPlane, WaitersFindSilence
    <3> QED BY <2>3, <3>2 DEF OrphanInv
  <2>5. CASE plane = p
    <3>1. AllTold
      BY <2>1, <2>5 DEF OrphanInv, NoOrphanPlane, AllTold
    <3>2. plane' = None /\ (active' = active \/ active' = None)
      BY <1>2, <2>5 DEF HandlePlaneExit, Replaced
    <3>3. cancelFn' = None
      <4>1. CASE run[p].result = "canceled"
        <5>1. cancelFn' = cancelFn
          BY <1>2, <2>5, <4>1 DEF HandlePlaneExit, Replaced
        <5>2. run[plane].cancelled /\ plane # None
          BY <2>1, <2>5, <4>1, RunShape DEF OrphanInv, CanceledWhenTold
        <5> QED BY <5>1, <5>2 DEF OrphanInv, HoldsItsPlane
      <4>2. CASE run[p].result # "canceled"
        <5>1. cancelFn' = (IF active = None THEN cancelFn ELSE None)
          BY <1>2, <2>5, <4>2 DEF HandlePlaneExit, Replaced
        <5> QED BY <5>1 DEF OwnerInv, NothingHeldWhenIdle
      <4> QED BY <4>1, <4>2
    <3>4. NoOrphanPlane'
      BY <2>3, <3>1 DEF NoOrphanPlane, AllTold
    <3>5. HoldsItsPlane' /\ WaitersFindSilence'
      BY <2>3, <3>1, <3>2, <3>3 DEF HoldsItsPlane, WaitersFindSilence
    <3> QED BY <2>3, <3>4, <3>5 DEF OrphanInv
  <2> QED BY <2>4, <2>5
<1> QED BY <1>1, <1>2 DEF PlaneStep

(* Nothing streams to the MiSTer behind the Manager's back: whatever any   *)
(* number of callers start, pause and stop at the same time with full      *)
(* session keys, a plane that was not told to stop is the current one and  *)
(* belongs to the active session.                                          *)
THEOREM NothingIsLeftBehind ==
  ASSUME GuardedByKey, NoReplays PROVE Spec => []NoOrphanPlane
<1>1. StopsStandAlone
  BY DEF NoReplays, StopsStandAlone
<1>2. Init => OrphanInv
  BY ManagerAssumption DEF Init, Unused, Ready, OrphanInv, NoOrphanPlane, HoldsItsPlane,
                           CanceledWhenTold, WaitersFindSilence
<1>3. RefinementInv /\ OrphanInv /\ [Next]_vars => OrphanInv'
  <2>1. ASSUME RefinementInv, OrphanInv, UNCHANGED vars PROVE OrphanInv'
    BY <2>1 DEF vars, managerVars, OrphanInv, NoOrphanPlane, HoldsItsPlane, CanceledWhenTold,
                WaitersFindSilence, AllTold
  <2> QED BY <2>1, CallerSpares, PlaneSpares DEF Next
<1>4. OrphanInv => NoOrphanPlane
  BY DEF OrphanInv
<1> QED BY <1>1, <1>2, <1>3, <1>4, RefinementInvariant, PTL DEF Spec
=============================================================================
