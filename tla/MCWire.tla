------------------------------- MODULE MCWire -------------------------------
(***************************************************************************)
(* What the bridge has with the MiSTer, one at a time: the fields of a     *)
(* session (FieldDelta), how sessions get the receiver (Handshake), and the*)
(* test pattern (Calibration).                                             *)
(***************************************************************************)
EXTENDS FieldDelta, Handshake, Calibration, TLC

VARIABLE part    \* what this behaviour is about

Codecs   == <<"lz4", "nlc", "raw">>
Symmetry == Permutations(Tabs) \cup Permutations(Geometries)

MCInit ==
    /\ Init /\ HsInit /\ CalInit
    /\ \/ part = "fields"
       \/ part = "session"
       \/ part = "pattern"
    /\ part # "fields" => polarity = 0
    /\ part # "session" => rx.core = "nlc"

MCNext ==
    \/ part = "fields" /\ Next /\ UNCHANGED <<part, hsVars, calVars>>
    \/ part = "session" /\ HsNext /\ UNCHANGED <<part, vars, calVars>>
    \/ part = "pattern" /\ CalNext /\ UNCHANGED <<part, vars, hsVars>>

MCSpec == MCInit /\ [][MCNext]_<<part, vars, hsVars, calVars>>
=============================================================================
