-------------------------- MODULE SessionOwnership --------------------------
(***************************************************************************)
(* What internal/core promises the adapters about the one session the      *)
(* bridge can carry.  The bridge belongs to at most one session.  It       *)
(* passes from session to session in the order of their generations, so a  *)
(* session that lost it never gets it back, and a session that loses it to *)
(* nobody or to another AdapterRef is told so, once, at that moment.  A    *)
(* session replaced by one with its own AdapterRef is not told: the        *)
(* adapter's session goes on.                                              *)
(***************************************************************************)
EXTENDS Naturals

CONSTANTS Refs, MaxGeneration, None

VARIABLES
    owner,  \* the session that owns the bridge, or None
    ended,  \* the generations that owned it before
    told    \* per generation: how often its OnStop was called

Init == owner = None /\ ended = {} /\ told = [g \in 1..MaxGeneration |-> 0]

Previous == IF owner = None THEN {} ELSE {owner.gen}

Tell(g) == told' = [told EXCEPT ![g] = @ + 1]

(* A session younger than every owner so far takes the bridge. *)
Take ==
    \E r \in Refs, g \in 1..MaxGeneration :
        /\ \A h \in ended \cup Previous : h < g
        /\ owner' = [ref |-> r, gen |-> g]
        /\ ended' = ended \cup Previous
        /\ IF owner = None \/ owner.ref = r THEN UNCHANGED told ELSE Tell(owner.gen)

(* The owner stops, ends or fails. *)
Release ==
    /\ owner # None
    /\ owner' = None
    /\ ended' = ended \cup Previous
    /\ Tell(owner.gen)

Spec == Init /\ [][Take \/ Release]_<<owner, ended, told>>
=============================================================================
