------------------------- MODULE MC_CasFrameBuffer --------------------------
(***************************************************************************)
(* Model-checking instance of CasFrameBuffer: three pool threads, so that *)
(* another worker could be handed a subframe while one still runs, and   *)
(* the ten subframe numbers of a radio frame.                            *)
(***************************************************************************)
EXTENDS CasFrameBuffer

=============================================================================
