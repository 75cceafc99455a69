---------------------------- MODULE MCEventQueue ----------------------------
(* Events for TLC: a cleanup, two responses and a refresh pulse. *)
EXTENDS EventQueue

CONSTANTS cleanup, response1, response2, refresh

MCEvents == {cleanup, response1, response2, refresh}
MCPriority == [e \in MCEvents |-> CASE e = cleanup -> -10 [] e = refresh -> 20 [] OTHER -> 0]
=============================================================================
