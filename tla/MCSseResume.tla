---------------------------- MODULE MCSseResume ----------------------------
(* SseResume for TLC.  The subscriptions are model values; no symmetry, because of the liveness property. *)
EXTENDS SseResume

CONSTANTS k1, k2
============================================================================
