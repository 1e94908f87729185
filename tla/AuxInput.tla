------------------------------- MODULE AuxInput -------------------------------
(***************************************************************************)
(* internal/adapters/auxadapter: a line input that is cast as if it were a *)
(* stream.  The relay's own proxy hands the stream to ffmpeg against two   *)
(* tokens, one for the probe and one for playing, that open it once each.  *)
(* What a session holds is given back exactly when it is over - by its     *)
(* OnStop, a stop, a rollback or the start that replaced it.               *)
(*                                                                         *)
(* A session is the number of its start: a.activeGen.                      *)
(***************************************************************************)
EXTENDS Naturals, FiniteSets

CONSTANTS
    Inputs,        \* input ids that the settings may name
    AuxLimits      \* the instances: starts, stops, faults, whether settings change

VARIABLES
    auxLim,    \* the instance
    input,     \* a.cfg.Input.ID
    auxOn,     \* a.cfg.Enabled
    op,        \* the holder of opMu and how far it is
    active,    \* activeRef and activeGen
    stopped,   \* sessions whose activeStopped is set
    tokens,    \* a.proxy.tokens: session and kind, not used yet
    slot,      \* what the manager plays
    hooks,     \* OnStops under way: session, and whether it has said so
    lastGen    \* a.nextGen

auxVars == <<auxLim, input, auxOn, op, active, stopped, tokens, slot, hooks, lastGen>>

NoGen     == [ref |-> "", gen |-> 0]
OtherCast == [ref |-> "other", gen |-> 0]
Free      == [at |-> "free"]
Probe(g)  == [gen |-> g, kind |-> "probe"]
PlayT(g)  == [gen |-> g, kind |-> "play"]
Pair(g)   == {Probe(g), PlayT(g)}

AuxInit ==
    /\ auxLim \in AuxLimits
    /\ input \in Inputs /\ auxOn = TRUE
    /\ op = Free /\ active = NoGen /\ stopped = {} /\ tokens = {}
    /\ slot = NoGen /\ hooks = {} /\ lastGen = 0

Held(step) == op.at = step
(* The session the manager lets go of is told, later. *)
Told == IF slot.gen = 0 THEN hooks ELSE hooks \cup {[gen |-> slot.gen, ref |-> slot.ref, said |-> FALSE]}

-----------------------------------------------------------------------------
(* StartAUX; starting what plays already is no start. *)
BeginAux ==
    /\ op = Free /\ auxOn /\ lastGen < auxLim.starts
    /\ op' = IF active.ref = input /\ slot.ref = input THEN Free ELSE [at |-> "build"]
    /\ UNCHANGED <<auxLim, input, auxOn, active, stopped, tokens, slot, hooks, lastGen>>

(* The settings are read again, the tokens minted, and the session         *)
(* registered before the manager is asked.                                 *)
Build ==
    /\ Held("build")
    /\ IF ~auxOn THEN op' = Free /\ UNCHANGED <<active, tokens, lastGen>>
       ELSE /\ lastGen' = lastGen + 1
            /\ tokens' = tokens \cup Pair(lastGen + 1)
            /\ op' = [at |-> "core", prev |-> active, ref |-> input]
            /\ active' = [ref |-> input, gen |-> lastGen + 1]
    /\ UNCHANGED <<auxLim, input, auxOn, stopped, slot, hooks>>

(* StartSession probes with the one token, and refuses before or after it  *)
(* has taken the old session down; ffmpeg opens the stream with the other. *)
Mine == [ref |-> op.ref, gen |-> lastGen]

ProbeStream ==
    /\ Held("core") /\ Probe(lastGen) \in tokens
    /\ tokens' = tokens \ {Probe(lastGen)}
    /\ op' = [op EXCEPT !.at = "probed"]
    /\ UNCHANGED <<auxLim, input, auxOn, active, stopped, slot, hooks, lastGen>>

CoreTakes ==
    /\ Held("probed")
    /\ slot' = Mine /\ hooks' = Told
    /\ op' = [op EXCEPT !.at = "replaced"]
    /\ UNCHANGED <<auxLim, input, auxOn, active, stopped, tokens, lastGen>>

CoreRefuses ==
    /\ auxLim.faults
    /\ \/ (Held("core") \/ Held("probed")) /\ UNCHANGED <<slot, hooks>>
       \/ Held("probed") /\ slot' = NoGen /\ hooks' = Told
    /\ op' = [at |-> "rollback", prev |-> op.prev, ref |-> op.ref, seen |-> slot'.ref]
    /\ UNCHANGED <<auxLim, input, auxOn, active, stopped, tokens, lastGen>>

ReadsStream ==
    /\ slot.gen > 0 /\ PlayT(slot.gen) \in tokens
    /\ tokens' = tokens \ {PlayT(slot.gen)}
    /\ UNCHANGED <<auxLim, input, auxOn, op, active, stopped, slot, hooks, lastGen>>

(* The start that went well ends what it replaced.                         *)
Replaced ==
    /\ Held("replaced") /\ op' = Free
    /\ tokens' = tokens \ Pair(op.prev.gen)
    /\ UNCHANGED <<auxLim, input, auxOn, active, stopped, slot, hooks, lastGen>>

(* rollbackAUXStart gives the adapter back to the session it had, if that  *)
(* one still plays and has not said that it is over.                       *)
StillPlays(before, seen) == seen = before.ref /\ before.gen \notin stopped

Rollback ==
    /\ Held("rollback") /\ op' = Free
    /\ LET left == tokens \ Pair(lastGen) IN
       IF active # Mine /\ active # NoGen THEN tokens' = left /\ UNCHANGED active
       ELSE IF op.prev.ref \notin {"", op.ref} /\ StillPlays(op.prev, op.seen)
       THEN active' = op.prev /\ tokens' = left
       ELSE active' = NoGen /\ tokens' = left \ Pair(op.prev.gen)
    /\ UNCHANGED <<auxLim, input, auxOn, stopped, slot, hooks, lastGen>>

-----------------------------------------------------------------------------
(* StopAUX and the adapter's Stop: by the ref that was active; the one     *)
(* forgets the session after the manager stopped it, the other before.     *)
StopAux ==
    /\ op = Free /\ active # NoGen /\ auxLim.stops
    /\ op' = [at |-> "clear", was |-> active]
    /\ IF slot.ref = active.ref THEN slot' = NoGen /\ hooks' = Told ELSE UNCHANGED <<slot, hooks>>
    /\ UNCHANGED <<auxLim, input, auxOn, active, stopped, tokens, lastGen>>

(* clearActiveSession: only the session that is meant.  The slip forgets   *)
(* whichever there is.                                                     *)
Whichever(was) == active # NoGen
IsMeant(was)   == active = was

ClearAux ==
    /\ Held("clear") /\ op' = Free
    /\ IF IsMeant(op.was) THEN active' = NoGen /\ tokens' = tokens \ Pair(active.gen)
       ELSE UNCHANGED <<active, tokens>>
    /\ UNCHANGED <<auxLim, input, auxOn, stopped, slot, hooks, lastGen>>

StopAdapter ==
    /\ op = Free /\ auxLim.stops /\ active # NoGen
    /\ op' = [at |-> "stop", was |-> active]
    /\ active' = NoGen /\ tokens' = tokens \ Pair(active.gen)
    /\ UNCHANGED <<auxLim, input, auxOn, stopped, slot, hooks, lastGen>>

StopsCore ==
    /\ Held("stop") /\ op' = Free
    /\ IF slot.ref = op.was.ref THEN slot' = NoGen /\ hooks' = Told ELSE UNCHANGED <<slot, hooks>>
    /\ UNCHANGED <<auxLim, input, auxOn, active, stopped, tokens, lastGen>>

-----------------------------------------------------------------------------
(* The session ends by itself, or a cast of another adapter takes over.    *)
EndAux ==
    /\ slot.gen > 0 /\ slot' \in {NoGen, OtherCast} /\ hooks' = Told
    /\ UNCHANGED <<auxLim, input, auxOn, op, active, stopped, tokens, lastGen>>

(* onStopForSession: the flag, and then the mutex. *)
SaysStopped(h) ==
    /\ h \in hooks /\ ~h.said
    /\ stopped' = stopped \cup {h.gen}
    /\ hooks' = (hooks \ {h}) \cup {[h EXCEPT !.said = TRUE]}
    /\ UNCHANGED <<auxLim, input, auxOn, op, active, tokens, slot, lastGen>>

OnStop(h) ==
    /\ h \in hooks /\ h.said /\ hooks' = hooks \ {h}
    /\ IF IsMeant([ref |-> h.ref, gen |-> h.gen])
       THEN active' = NoGen /\ tokens' = tokens \ Pair(active.gen)
       ELSE UNCHANGED active /\ tokens' = tokens \ Pair(h.gen)
    /\ UNCHANGED <<auxLim, input, auxOn, op, stopped, slot, lastGen>>

(* ApplyConfig and SetEnabled.  (The input does not change between the two *)
(* times StartAUX reads it.)                                               *)
SetInput ==
    /\ auxLim.settings
    /\ \/ ~Held("build") /\ input' \in Inputs \ {input} /\ UNCHANGED auxOn
       \/ auxOn' = ~auxOn /\ UNCHANGED input
    /\ UNCHANGED <<auxLim, op, active, stopped, tokens, slot, hooks, lastGen>>

AuxNext ==
    \/ BeginAux \/ Build \/ ProbeStream \/ CoreTakes \/ CoreRefuses \/ ReadsStream \/ Replaced \/ Rollback
    \/ StopAux \/ ClearAux \/ StopAdapter \/ StopsCore \/ EndAux \/ SetInput
    \/ \E h \in hooks : SaysStopped(h) \/ OnStop(h)

AuxSpec == AuxInit /\ [][AuxNext]_auxVars

-----------------------------------------------------------------------------
AuxRests == op = Free /\ hooks = {}

(* When all is over the adapter is the session that plays, or none, and    *)
(* no token of another session is left that would still open the stream.   *)
AuxInOrder ==
    AuxRests =>
        /\ active = (IF slot.gen > 0 THEN slot ELSE NoGen)
        /\ \A t \in tokens : t.gen = slot.gen
=============================================================================
