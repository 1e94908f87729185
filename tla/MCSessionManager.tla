-------------------------- MODULE MCSessionManager --------------------------
(***************************************************************************)
(* Callers and what they do, for the instances TLC checks.                 *)
(***************************************************************************)
EXTENDS SessionManager, TLC

CONSTANTS c1, c2

TwoCallers == {c1, c2}

(* One caller drives the session, the other only starts sessions. *)
DriverAndStarter == c1 :> AllOperations @@ c2 :> {"start"}

(* Two callers that start, pause and stop, but never replay a session. *)
NoReplay == [c \in TwoCallers |-> {"start", "pause", "stop"}]

(* Two callers that only start sessions. *)
OnlyStarts == [c \in TwoCallers |-> {"start"}]

(* One caller starts and stops, the other seeks. *)
StopAndSeek == c1 :> {"start", "stop"} @@ c2 :> {"seek"}

(* Refs and planes are interchangeable; the callers are not. *)
Symmetry == Permutations(Refs) \cup Permutations(Planes)
=============================================================================
