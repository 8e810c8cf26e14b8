---------------------------- MODULE MCAgentChains ----------------------------
(* Two devices; three logins of which two are of one person; a token lives   *)
(* two units of the clock.                                                    *)
EXTENDS AgentChains

MCOwnerOf == [l \in Logins |-> IF l = 2 THEN "ann" ELSE "bob"]
==============================================================================
