--------------------------- MODULE MCChoreography ---------------------------
(* Instance for TLC: a bundle of two components, carried by the sweep that *)
(* comes back and by a request.                                            *)
EXTENDS Choreography

CONSTANTS backend, frontend

MCOrder == <<backend, frontend>>
=============================================================================
