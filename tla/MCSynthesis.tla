---------------------------- MODULE MCSynthesis ----------------------------
(***************************************************************************)
(* Instance of Synthesis for TLC: more callers than permits, and room in   *)
(* the thread pool for one orphan before jobs queue.                       *)
(***************************************************************************)
EXTENDS Synthesis
=============================================================================
