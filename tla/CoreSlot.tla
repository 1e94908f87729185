------------------------------ MODULE CoreSlot ------------------------------
(***************************************************************************)
(* What a remote-controlled adapter sees of core.Manager: one slot that a  *)
(* session takes, and OnStop hooks which the Manager runs in goroutines of *)
(* their own.  The Manager's waits, probes and planes are SessionManager's *)
(* subject; here each of its calls is the step that takes effect.          *)
(***************************************************************************)
EXTENDS Integers

VARIABLES
    owner,  \* the active session: who, AdapterRef, generation, request, paused
    gens,   \* the last generation handed out
    told    \* OnStop goroutines that have not begun: the session and the reason

slotVars == <<owner, gens, told>>

Session(by, ref, req) ==
    [by |-> by, ref |-> ref, gen |-> 0, req |-> req, paused |-> FALSE]
NoSession    == Session("none", <<>>, <<>>)
OtherSession == Session("other", <<0>>, <<>>)

SlotInit == owner = NoSession /\ gens = 0 /\ told = {}

Idle      == owner.by = "none"
Owned(by) == owner.by = by

(* Only adapters that are modelled have a hook here. *)
Hook(why) ==
    IF owner.by \in {"none", "other"} THEN {} ELSE {[of |-> owner, why |-> why]}

(* A session takes the slot.  One of the same AdapterRef replays it and is *)
(* not announced to it as a preemption.                                    *)
Installs(s) ==
    /\ owner' = [s EXCEPT !.gen = gens + 1]
    /\ gens' = gens + 1
    /\ told' = IF owner.ref = s.ref THEN told ELSE told \cup Hook("preempted")

Empties(why) ==
    /\ owner' = NoSession
    /\ told' = told \cup Hook(why)
    /\ UNCHANGED gens

Stop == Empties("stopped")

StopIfSession(ref, gen) ==
    IF owner.ref = ref /\ owner.gen = gen THEN Stop ELSE UNCHANGED slotVars

(* Pause and Play, unguarded: an error without a session. *)
SetPaused(p) ==
    /\ owner' = IF Idle THEN owner ELSE [owner EXCEPT !.paused = p]
    /\ UNCHANGED <<gens, told>>
=============================================================================
