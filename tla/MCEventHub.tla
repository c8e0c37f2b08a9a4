----------------------------- MODULE MCEventHub -----------------------------
(* Two streams of one session, as of two browser tabs.                     *)
EXTENDS EventHub

CONSTANTS a, b, x, u

MCSessionOf == [s \in Streams |-> x]
MCUserOf == [z \in Sessions |-> u]
=============================================================================
