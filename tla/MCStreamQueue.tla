--------------------------- MODULE MCStreamQueue ---------------------------
(* The clients of the run of StreamQueue.                                  *)
EXTENDS StreamQueue

Handing == [users |-> {"t1"}, asks |-> {"handoff", "move", "replay", "drop"},
            kinds |-> {"first"}, most |-> 3]
Racing  == [users |-> {"t1", "t2"}, asks |-> {"start", "handoff", "replay", "stop", "drop"},
            kinds |-> {"list", "adhoc", "live"}, most |-> 2]
MCClients == {Handing, Racing}
=============================================================================
