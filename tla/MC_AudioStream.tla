--------------------------- MODULE MC_AudioStream ---------------------------
(***************************************************************************)
(* A call of four frames with three connections and three windows, a       *)
(* buffer of two frames, and on each connection a caller of three words.   *)
(* Only the last final result is remembered, the least that recognises its *)
(* second copy.                                                            *)
(***************************************************************************)
EXTENDS AudioStream
=============================================================================
